---- MODULE Spec2Model ----
(***************************************************************************)
(* The MCP gateway of ariba-mock (src/mcp-server/server.py): call_tool and *)
(* the REST facade forward one GET to the mock or the risk backend through *)
(* call_mock_api / call_risk_api and wrap what comes back.                 *)
(*                                                                         *)
(* Text is a sequence of string tokens (<<>> is the empty string, \o is    *)
(* string concatenation).  A Python value is a record tagged by its type.  *)
(***************************************************************************)
EXTENDS Integers, Sequences, FiniteSets, TLC

VARIABLES
    http_client,   \* the global client handle: "None", "open" or "closed"
    phase,         \* position of lifespan: "start", "warm_mock", "warm_risk", "serving", "stopped"
    cur,           \* the invocation being handled, or Idle
    mark,          \* history: one earlier tool invocation and the request it issued, or NoMark
    suspended,     \* the invocations waiting at their await while another one runs
    events,        \* history: what lifespan did to the client and the GETs it sent, in order
    writes,        \* the assignments the backends made to their tables since generate_*_data()
    last           \* the last exchange a backend handled, or NoExchange

vars == <<http_client, phase, cur, mark, suspended, events, writes, last>>

\* the state of the two backend processes
backend_vars == <<writes, last>>

(***************************************************************************)
(* Python values                                                           *)
(***************************************************************************)
PyNone == [t |-> "None"]
PyBool(b) == [t |-> "bool", b |-> b]
PyInt(n) == [t |-> "int", n |-> n]
PyStr(s) == [t |-> "str", s |-> s]
PyList(xs) == [t |-> "list", xs |-> xs]
PyDict(kvs) == [t |-> "dict", kvs |-> kvs]

EmptyDict == PyDict(<<>>)

\* bool(v) for the values the gateway tests: None and "" are falsy
Truthy(v) ==
    CASE v.t = "None" -> FALSE
      [] v.t = "str" -> v.s # <<>>
      [] v.t = "dict" -> v.kvs # <<>>
      [] v.t = "list" -> v.xs # <<>>
      [] v.t = "bool" -> v.b
      [] v.t = "int" -> v.n # 0

\* mutant: a missing value rendered as the empty string
FormatEmpty(v) ==
    IF v.t = "None" THEN <<>> ELSE v.s

\* str(v) as an f-string field renders it
Format(v) ==
    IF v.t = "None" THEN <<"None">> ELSE v.s

\* d.get(k) on a mapping from keys to values
DictGet(d, k) ==
    IF k \in DOMAIN d THEN d[k] ELSE PyNone

RECURSIVE IndexOfKey(_, _, _)
IndexOfKey(kvs, k, i) ==
    IF i > Len(kvs) THEN 0
    ELSE IF kvs[i][1] = k THEN i
    ELSE IndexOfKey(kvs, k, i + 1)

\* d[k] = v on an insertion-ordered dict
DictSet(d, k, v) ==
    LET i == IndexOfKey(d.kvs, k, 1) IN
    IF i = 0 THEN PyDict(Append(d.kvs, <<k, v>>))
    ELSE PyDict([d.kvs EXCEPT ![i] = <<k, v>>])

DictKeys(d) == {d.kvs[i][1] : i \in 1..Len(d.kvs)}

DictValue(d, k) == d.kvs[IndexOfKey(d.kvs, k, 1)][2]

(***************************************************************************)
(* JSON text: a sequence of tokens [k, s, n]                               *)
(***************************************************************************)
Punct(c) == [k |-> "punct", s |-> <<c>>, n |-> 0]
Newline(level) == [k |-> "nl", s |-> <<>>, n |-> level]
Space == [k |-> "sp", s |-> <<>>, n |-> 0]
StrTok(s) == [k |-> "str", s |-> s, n |-> 0]
NumTok(n) == [k |-> "num", s |-> <<>>, n |-> n]
LitTok(w) == [k |-> "lit", s |-> <<w>>, n |-> 0]
RawTok(w) == [k |-> "raw", s |-> <<w>>, n |-> 0]

IsWs(tok) == tok.k \in {"nl", "sp"}

\* json.dumps(v, indent=...): indent = 2 breaks lines, indent = -1 (None) with
\* separators (",", ":") is the compact form
RECURSIVE Dumps(_, _, _), DumpItems(_, _, _, _), DumpMembers(_, _, _, _)
Dumps(v, indent, level) ==
    CASE v.t = "None" -> <<LitTok("null")>>
      [] v.t = "bool" -> <<LitTok(IF v.b THEN "true" ELSE "false")>>
      [] v.t = "int" -> <<NumTok(v.n)>>
      [] v.t = "str" -> <<StrTok(v.s)>>
      [] v.t = "list" ->
            IF v.xs = <<>> THEN <<Punct("["), Punct("]")>>
            ELSE <<Punct("[")>> \o DumpItems(v.xs, 1, indent, level + 1)
                 \o (IF indent >= 0 THEN <<Newline(level)>> ELSE <<>>)
                 \o <<Punct("]")>>
      [] v.t = "dict" ->
            IF v.kvs = <<>> THEN <<Punct("{"), Punct("}")>>
            ELSE <<Punct("{")>> \o DumpMembers(v.kvs, 1, indent, level + 1)
                 \o (IF indent >= 0 THEN <<Newline(level)>> ELSE <<>>)
                 \o <<Punct("}")>>

DumpItems(xs, i, indent, level) ==
    IF i > Len(xs) THEN <<>>
    ELSE (IF i > 1 THEN <<Punct(",")>> ELSE <<>>)
         \o (IF indent >= 0 THEN <<Newline(level)>> ELSE <<>>)
         \o Dumps(xs[i], indent, level)
         \o DumpItems(xs, i + 1, indent, level)

DumpMembers(kvs, i, indent, level) ==
    IF i > Len(kvs) THEN <<>>
    ELSE (IF i > 1 THEN <<Punct(",")>> ELSE <<>>)
         \o (IF indent >= 0 THEN <<Newline(level)>> ELSE <<>>)
         \o <<StrTok(<<kvs[i][1]>>), Punct(":")>>
         \o (IF indent >= 0 THEN <<Space>> ELSE <<>>)
         \o Dumps(kvs[i][2], indent, level)
         \o DumpMembers(kvs, i + 1, indent, level)

\* json.loads: recursive descent; a result is [ok, v, i] with i the next position
ParseFail == [ok |-> FALSE, v |-> PyNone, i |-> 0]
ParseOk(v, i) == [ok |-> TRUE, v |-> v, i |-> i]

RECURSIVE SkipWs(_, _)
SkipWs(toks, i) ==
    IF i <= Len(toks) /\ IsWs(toks[i]) THEN SkipWs(toks, i + 1) ELSE i

RECURSIVE ParseValue(_, _), ParseItems(_, _, _), ParseMembers(_, _, _)
ParseValue(toks, i) ==
    LET j == SkipWs(toks, i) IN
    IF j > Len(toks) THEN ParseFail
    ELSE LET tok == toks[j] IN
         CASE tok.k = "str" -> ParseOk(PyStr(tok.s), j + 1)
           [] tok.k = "num" -> ParseOk(PyInt(tok.n), j + 1)
           [] tok.k = "lit" ->
                 IF tok.s = <<"null">> THEN ParseOk(PyNone, j + 1)
                 ELSE IF tok.s = <<"true">> THEN ParseOk(PyBool(TRUE), j + 1)
                 ELSE IF tok.s = <<"false">> THEN ParseOk(PyBool(FALSE), j + 1)
                 ELSE ParseFail
           [] tok = Punct("[") -> ParseItems(toks, j + 1, <<>>)
           [] tok = Punct("{") -> ParseMembers(toks, j + 1, EmptyDict)
           [] OTHER -> ParseFail

ParseItems(toks, i, acc) ==
    LET j == SkipWs(toks, i) IN
    IF j > Len(toks) THEN ParseFail
    ELSE IF toks[j] = Punct("]") /\ acc = <<>> THEN ParseOk(PyList(<<>>), j + 1)
    ELSE LET r == ParseValue(toks, j)
             m == SkipWs(toks, r.i)
         IN  IF ~r.ok \/ m > Len(toks) THEN ParseFail
             ELSE IF toks[m] = Punct(",") THEN ParseItems(toks, m + 1, Append(acc, r.v))
             ELSE IF toks[m] = Punct("]") THEN ParseOk(PyList(Append(acc, r.v)), m + 1)
             ELSE ParseFail

ParseMembers(toks, i, acc) ==
    LET j == SkipWs(toks, i) IN
    IF j > Len(toks) THEN ParseFail
    ELSE IF toks[j] = Punct("}") /\ acc = EmptyDict THEN ParseOk(EmptyDict, j + 1)
    ELSE IF toks[j].k # "str" \/ Len(toks[j].s) # 1 THEN ParseFail
    ELSE LET c == SkipWs(toks, j + 1) IN
         IF c > Len(toks) \/ toks[c] # Punct(":") THEN ParseFail
         ELSE LET r == ParseValue(toks, c + 1)
                  m == SkipWs(toks, r.i)
                  d == DictSet(acc, toks[j].s[1], r.v)
              IN  IF ~r.ok \/ m > Len(toks) THEN ParseFail
                  ELSE IF toks[m] = Punct(",") THEN ParseMembers(toks, m + 1, d)
                  ELSE IF toks[m] = Punct("}") THEN ParseOk(d, m + 1)
                  ELSE ParseFail

\* [ok, v]: ok is FALSE where json.loads raises JSONDecodeError
JsonLoads(toks) ==
    LET r == ParseValue(toks, 1) IN
    IF r.ok /\ SkipWs(toks, r.i) > Len(toks) THEN [ok |-> TRUE, v |-> r.v]
    ELSE [ok |-> FALSE, v |-> PyNone]

(***************************************************************************)
(* Configuration and the tool catalog                                      *)
(***************************************************************************)
MOCK_API_URL == "http://localhost:8080"
RISK_API_URL == "http://localhost:8081"

\* mutant: the risk tool catalogued under another name than the one
\* call_tool compares with
ToolEntryRenamed(name, properties, required) ==
    [name |-> IF name = "risk_get_score" THEN "get_risk_score" ELSE name,
     properties |-> properties, required |-> required]

\* mutant: every declared property listed as required
ToolEntryAllRequired(name, properties, required) ==
    [name |-> name, properties |-> properties, required |-> properties]

ToolEntry(name, properties, required) ==
    [name |-> name, properties |-> properties, required |-> required]

\* list_tools(): name, inputSchema.properties (in order), inputSchema.required
list_tools ==
    << ToolEntry("get_dashboard_summary", <<>>, <<>>),
       ToolEntry("list_suppliers", <<"status", "category">>, <<>>),
       ToolEntry("get_supplier", <<"supplier_id">>, <<"supplier_id">>),
       ToolEntry("list_purchase_orders", <<"status", "supplier_id">>, <<>>),
       ToolEntry("get_purchase_order", <<"po_id">>, <<"po_id">>),
       ToolEntry("list_requisitions", <<"status", "requester">>, <<>>),
       ToolEntry("get_requisition", <<"req_id">>, <<"req_id">>),
       ToolEntry("list_invoices", <<"status", "po_number">>, <<>>),
       ToolEntry("get_invoice", <<"invoice_id">>, <<"invoice_id">>),
       ToolEntry("list_contracts", <<"status", "supplier_name">>, <<>>),
       ToolEntry("get_contract", <<"contract_id">>, <<"contract_id">>),
       ToolEntry("list_proposals", <<"rfp_id", "supplier_id", "status">>, <<>>),
       ToolEntry("get_proposal", <<"proposal_id">>, <<"proposal_id">>),
       ToolEntry("list_rfps", <<"status">>, <<>>),
       ToolEntry("get_rfp", <<"rfp_id">>, <<"rfp_id">>),
       ToolEntry("risk_get_score", <<"supplier_id">>, <<"supplier_id">>) >>

SeqRange(s) == {s[i] : i \in 1..Len(s)}

CatalogNames == {list_tools[i].name : i \in 1..Len(list_tools)}

CatalogProperties(name) ==
    UNION {SeqRange(list_tools[i].properties) :
               i \in {j \in 1..Len(list_tools) : list_tools[j].name = name}}

(***************************************************************************)
(* call_tool: the dispatch chain up to the call of call_mock_api /         *)
(* call_risk_api                                                           *)
(***************************************************************************)
MockCall(endpoint, params) ==
    [known |-> TRUE, api |-> "mock", endpoint |-> endpoint, params |-> params]

RiskCall(endpoint, params) ==
    [known |-> TRUE, api |-> "risk", endpoint |-> endpoint, params |-> params]

\* mutant: an unlisted name forwarded to the backend as a path
ForwardUnknown(name) == MockCall(<<"/api/", name>>, PyNone)

\* the else branch: no backend call, a text naming the tool
UnknownTool(name) ==
    [known |-> FALSE, text |-> <<"Error: Unknown tool '", name, "'">>]

\* mutant: a params dict that outlives the call and keeps a retry marker once
\* a call has failed
StickyParams ==
    IF mark.set /\ mark.failed_since THEN PyDict(<< <<"retry", PyStr(<<"1">>)>> >>)
    ELSE EmptyDict

\* mutant: one module-level params dict, which still holds the filters of an
\* invocation that waits for its response
SharedParams ==
    IF suspended # <<>> /\ suspended[1].request.params.t = "dict"
    THEN suspended[1].request.params
    ELSE EmptyDict

\* params = {}
NewParams == EmptyDict

\* mutant: `if k in arguments`, which forwards an empty filter
IfArgPresent(params, arguments, k) ==
    IF k \in DOMAIN arguments THEN DictSet(params, k, arguments[k])
    ELSE params

\* if arguments.get(k): params[k] = arguments[k]
IfArg(params, arguments, k) ==
    IF Truthy(DictGet(arguments, k)) THEN DictSet(params, k, arguments[k])
    ELSE params

\* f"{prefix}{arguments.get(k)}"
DetailPath(prefix, arguments, k) ==
    <<prefix>> \o Format(DictGet(arguments, k))

\* the names the if/elif chain of call_tool compares name with
DispatchNames ==
    {"get_dashboard_summary", "list_suppliers", "get_supplier",
     "list_purchase_orders", "get_purchase_order", "list_requisitions",
     "get_requisition", "list_invoices", "get_invoice", "list_contracts",
     "get_contract", "list_proposals", "get_proposal", "list_rfps", "get_rfp",
     "risk_get_score"}

call_tool(name, arguments) ==
    IF name = "get_dashboard_summary" THEN
        MockCall(<<"/api/dashboard/summary">>, PyNone)
    ELSE IF name = "list_suppliers" THEN
        MockCall(<<"/api/suppliers">>,
                 IfArg(IfArg(NewParams, arguments, "status"), arguments, "category"))
    ELSE IF name = "get_supplier" THEN
        MockCall(DetailPath("/api/suppliers/", arguments, "supplier_id"), PyNone)
    ELSE IF name = "list_purchase_orders" THEN
        MockCall(<<"/api/purchase-orders">>,
                 IfArg(IfArg(NewParams, arguments, "status"), arguments, "supplier_id"))
    ELSE IF name = "get_purchase_order" THEN
        MockCall(DetailPath("/api/purchase-orders/", arguments, "po_id"), PyNone)
    ELSE IF name = "list_requisitions" THEN
        MockCall(<<"/api/requisitions">>,
                 IfArg(IfArg(NewParams, arguments, "status"), arguments, "requester"))
    ELSE IF name = "get_requisition" THEN
        MockCall(DetailPath("/api/requisitions/", arguments, "req_id"), PyNone)
    ELSE IF name = "list_invoices" THEN
        MockCall(<<"/api/invoices">>,
                 IfArg(IfArg(NewParams, arguments, "status"), arguments, "po_number"))
    ELSE IF name = "get_invoice" THEN
        MockCall(DetailPath("/api/invoices/", arguments, "invoice_id"), PyNone)
    ELSE IF name = "list_contracts" THEN
        MockCall(<<"/api/contracts">>,
                 IfArg(IfArg(NewParams, arguments, "status"), arguments, "supplier_name"))
    ELSE IF name = "get_contract" THEN
        MockCall(DetailPath("/api/contracts/", arguments, "contract_id"), PyNone)
    ELSE IF name = "list_proposals" THEN
        MockCall(<<"/api/proposals">>,
                 IfArg(IfArg(IfArg(NewParams, arguments, "rfp_id"),
                             arguments, "supplier_id"), arguments, "status"))
    ELSE IF name = "get_proposal" THEN
        MockCall(DetailPath("/api/proposals/", arguments, "proposal_id"), PyNone)
    ELSE IF name = "list_rfps" THEN
        MockCall(<<"/api/rfps">>, IfArg(NewParams, arguments, "status"))
    ELSE IF name = "get_rfp" THEN
        MockCall(DetailPath("/api/rfps/", arguments, "rfp_id"), PyNone)
    ELSE IF name = "risk_get_score" THEN
        RiskCall(DetailPath("/api/risk/score/", arguments, "supplier_id"), PyNone)
    ELSE UnknownTool(name)

(***************************************************************************)
(* The REST facade: one handler per data route under /api/v1               *)
(***************************************************************************)
\* params if params else None
ParamsOrNone(params) == IF Truthy(params) THEN params ELSE PyNone

\* mutant: the facade's own /api/v1 prefix kept in the backend path
PathParamPathV1(prefix, path_params, k) == <<"/api/v1", prefix>> \o Format(path_params[k])

\* f"{prefix}{request.path_params[k]}"
PathParamPath(prefix, path_params, k) == <<prefix>> \o Format(path_params[k])

api_handler(handler, path_params, query_params) ==
    IF handler = "api_dashboard" THEN
        MockCall(<<"/api/dashboard/summary">>, PyNone)
    ELSE IF handler = "api_suppliers" THEN
        MockCall(<<"/api/suppliers">>,
                 ParamsOrNone(IfArg(IfArg(NewParams, query_params, "status"),
                                    query_params, "category")))
    ELSE IF handler = "api_supplier_detail" THEN
        MockCall(PathParamPath("/api/suppliers/", path_params, "supplier_id"), PyNone)
    ELSE IF handler = "api_purchase_orders" THEN
        MockCall(<<"/api/purchase-orders">>,
                 ParamsOrNone(IfArg(IfArg(NewParams, query_params, "status"),
                                    query_params, "supplier_id")))
    ELSE IF handler = "api_purchase_order_detail" THEN
        MockCall(PathParamPath("/api/purchase-orders/", path_params, "po_id"), PyNone)
    ELSE IF handler = "api_requisitions" THEN
        MockCall(<<"/api/requisitions">>,
                 ParamsOrNone(IfArg(IfArg(NewParams, query_params, "status"),
                                    query_params, "requester")))
    ELSE IF handler = "api_requisition_detail" THEN
        MockCall(PathParamPath("/api/requisitions/", path_params, "req_id"), PyNone)
    ELSE IF handler = "api_invoices" THEN
        MockCall(<<"/api/invoices">>,
                 ParamsOrNone(IfArg(IfArg(NewParams, query_params, "status"),
                                    query_params, "po_number")))
    ELSE IF handler = "api_invoice_detail" THEN
        MockCall(PathParamPath("/api/invoices/", path_params, "invoice_id"), PyNone)
    ELSE IF handler = "api_contracts" THEN
        MockCall(<<"/api/contracts">>,
                 ParamsOrNone(IfArg(IfArg(NewParams, query_params, "status"),
                                    query_params, "supplier_name")))
    ELSE IF handler = "api_contract_detail" THEN
        MockCall(PathParamPath("/api/contracts/", path_params, "contract_id"), PyNone)
    ELSE IF handler = "api_proposals" THEN
        MockCall(<<"/api/proposals">>,
                 ParamsOrNone(IfArg(IfArg(IfArg(NewParams, query_params, "rfp_id"),
                                          query_params, "supplier_id"),
                                    query_params, "status")))
    ELSE IF handler = "api_proposal_detail" THEN
        MockCall(PathParamPath("/api/proposals/", path_params, "proposal_id"), PyNone)
    ELSE IF handler = "api_rfps" THEN
        MockCall(<<"/api/rfps">>,
                 ParamsOrNone(IfArg(NewParams, query_params, "status")))
    ELSE IF handler = "api_rfp_detail" THEN
        MockCall(PathParamPath("/api/rfps/", path_params, "rfp_id"), PyNone)
    ELSE
        RiskCall(PathParamPath("/api/risk/score/", path_params, "supplier_id"), PyNone)

\* Route(path, handler) of the Starlette app: handler, path-parameter name (or "")
DataRoutes ==
    << <<"api_dashboard", "">>,
       <<"api_suppliers", "">>,
       <<"api_supplier_detail", "supplier_id">>,
       <<"api_purchase_orders", "">>,
       <<"api_purchase_order_detail", "po_id">>,
       <<"api_requisitions", "">>,
       <<"api_requisition_detail", "req_id">>,
       <<"api_invoices", "">>,
       <<"api_invoice_detail", "invoice_id">>,
       <<"api_contracts", "">>,
       <<"api_contract_detail", "contract_id">>,
       <<"api_proposals", "">>,
       <<"api_proposal_detail", "proposal_id">>,
       <<"api_rfps", "">>,
       <<"api_rfp_detail", "rfp_id">>,
       <<"api_risk_score", "supplier_id">> >>

\* routes=[...] of the Starlette app: path and endpoint, in order
AppRoutes ==
    << <<"/", "root">>,
       <<"/health", "health">>,
       <<"/sse", "handle_sse">>,
       <<"/messages", "handle_messages">>,
       <<"/api/v1/tools", "api_list_tools">>,
       <<"/api/v1/openapi.json", "api_openapi_spec">>,
       <<"/api/v1/dashboard", "api_dashboard">>,
       <<"/api/v1/suppliers", "api_suppliers">>,
       <<"/api/v1/suppliers/{supplier_id}", "api_supplier_detail">>,
       <<"/api/v1/purchase-orders", "api_purchase_orders">>,
       <<"/api/v1/purchase-orders/{po_id}", "api_purchase_order_detail">>,
       <<"/api/v1/requisitions", "api_requisitions">>,
       <<"/api/v1/requisitions/{req_id}", "api_requisition_detail">>,
       <<"/api/v1/invoices", "api_invoices">>,
       <<"/api/v1/invoices/{invoice_id}", "api_invoice_detail">>,
       <<"/api/v1/contracts", "api_contracts">>,
       <<"/api/v1/contracts/{contract_id}", "api_contract_detail">>,
       <<"/api/v1/proposals", "api_proposals">>,
       <<"/api/v1/proposals/{proposal_id}", "api_proposal_detail">>,
       <<"/api/v1/rfps", "api_rfps">>,
       <<"/api/v1/rfps/{rfp_id}", "api_rfp_detail">>,
       <<"/api/v1/risk/{supplier_id}", "api_risk_score">> >>

\* the query parameters the OpenAPI document declares for a list route
QueryKeysOf(handler) ==
    CASE handler = "api_suppliers" -> {"status", "category"}
      [] handler = "api_purchase_orders" -> {"status", "supplier_id"}
      [] handler = "api_requisitions" -> {"status", "requester"}
      [] handler = "api_invoices" -> {"status", "po_number"}
      [] handler = "api_contracts" -> {"status", "supplier_name"}
      [] handler = "api_proposals" -> {"rfp_id", "supplier_id", "status"}
      [] handler = "api_rfps" -> {"status"}
      [] OTHER -> {}

(***************************************************************************)
(* call_mock_api / call_risk_api                                           *)
(***************************************************************************)
RequestTimeout == 30

\* mutant: the request sent without a timeout (timeout=None)
HttpGetNoTimeout(url, params, timeout) ==
    [method |-> "GET", url |-> url, params |-> params, timeout |-> 0]

\* http_client.get(url, params=params, timeout=30.0)
HttpGet(url, params, timeout) ==
    [method |-> "GET", url |-> url, params |-> params, timeout |-> timeout]

\* the request call_mock_api issues
call_mock_api(endpoint, params) ==
    HttpGet(<<MOCK_API_URL>> \o endpoint, params, RequestTimeout)

\* mutant: the risk call built on the mock base URL
call_risk_api_on_mock(endpoint, params) ==
    HttpGet(<<MOCK_API_URL>> \o endpoint, params, RequestTimeout)

\* the request call_risk_api issues
call_risk_api(endpoint, params) ==
    HttpGet(<<RISK_API_URL>> \o endpoint, params, RequestTimeout)

ApiRequest(d) ==
    IF d.api = "mock" THEN call_mock_api(d.endpoint, d.params)
    ELSE call_risk_api(d.endpoint, d.params)

\* what the exchange can end in: a response, or an exception of the transport
Response(status, body, value) ==
    [kind |-> "response", status |-> status, body |-> body, value |-> value]

TransportError(cls, message) ==
    [kind |-> "exception", cls |-> cls, message |-> message]

\* the exceptions the timeout of a request raises
TimeoutClasses == {"ReadTimeout", "ConnectTimeout"}

IsTimeout(outcome) == outcome.kind = "exception" /\ outcome.cls \in TimeoutClasses

\* an exchange ends in a timeout only when its request carries one
CanEnd(request, outcome) == IsTimeout(outcome) => request.timeout > 0

\* the classes `except httpx.HTTPError` catches
HTTPErrorClasses ==
    {"HTTPStatusError", "ReadTimeout", "ConnectTimeout", "ConnectError"}

\* mutant: `except httpx.HTTPStatusError`, which lets transport errors escape
IsHTTPStatusError(cls) == cls = "HTTPStatusError"

IsHTTPError(cls) == cls \in HTTPErrorClasses

\* response.is_success, which raise_for_status() tests
IsSuccess(status) == status >= 200 /\ status <= 299

StatusText(status) ==
    CASE status = 404 -> "Client error '404 NOT FOUND' for url '"
      [] status = 500 -> "Server error '500 INTERNAL SERVER ERROR' for url '"
      [] OTHER -> "Error response for url '"

\* str(e) of the HTTPStatusError raise_for_status() raises: it names the
\* status and the URL, never the body
StatusMessage(status, url) == <<StatusText(status)>> \o url \o <<"'">>

\* {"error": str(e)}
ErrorDict(message) == PyDict(<< <<"error", PyStr(message)>> >>)

Returned(value) == [raised |-> FALSE, caught |-> FALSE, value |-> value, exc |-> ""]
Caught(value) == [raised |-> FALSE, caught |-> TRUE, value |-> value, exc |-> ""]
Raised(cls) == [raised |-> TRUE, caught |-> FALSE, value |-> PyNone, exc |-> cls]

\* except httpx.HTTPError as e: return {"error": str(e)}; anything else escapes
Except(cls, message) ==
    IF IsHTTPError(cls) THEN Caught(ErrorDict(message)) ELSE Raised(cls)

\* mutant: the JSON body of an error response returned as the result
ApiResultForwardsBody(request, outcome) ==
    IF outcome.kind = "exception" THEN Except(outcome.cls, outcome.message)
    ELSE LET r == JsonLoads(outcome.body) IN
         IF r.ok THEN (IF IsSuccess(outcome.status) THEN Returned(r.v) ELSE Caught(r.v))
         ELSE IF ~IsSuccess(outcome.status)
              THEN Except("HTTPStatusError", StatusMessage(outcome.status, request.url))
         ELSE Except("JSONDecodeError", <<>>)

\* raise_for_status(); return response.json(), inside the try
ApiResult(request, outcome) ==
    IF outcome.kind = "exception" THEN Except(outcome.cls, outcome.message)
    ELSE IF ~IsSuccess(outcome.status)
         THEN Except("HTTPStatusError", StatusMessage(outcome.status, request.url))
    ELSE LET r == JsonLoads(outcome.body) IN
         IF r.ok THEN Returned(r.v) ELSE Except("JSONDecodeError", <<>>)

\* mutant: a list result cut to its first record
ToolResultFirst(result) ==
    << [type |-> "text",
        text |-> Dumps(IF result.t = "list" /\ Len(result.xs) > 1
                       THEN PyList(<<result.xs[1]>>) ELSE result, 2, 0)] >>

\* [TextContent(type="text", text=json.dumps(result, indent=2))]
ToolResult(result) ==
    << [type |-> "text", text |-> Dumps(result, 2, 0)] >>

\* [TextContent(type="text", text=f"Error: Unknown tool '{name}'")]
UnknownToolResult(d) ==
    << [type |-> "text", text |-> <<[k |-> "raw", s |-> d.text, n |-> 0]>>] >>

\* mutant: an error payload answered with a gateway fault status
JSONResponseFault(result) ==
    [status_code |-> IF result.t = "dict" /\ DictKeys(result) = {"error"} THEN 502 ELSE 200,
     body |-> Dumps(result, -1, 0)]

\* JSONResponse(result): status 200, the compact rendering
JSONResponse(result) ==
    [status_code |-> 200, body |-> Dumps(result, -1, 0)]

\* mutant: the except branch closes the shared client
ClientClosedOnError(res) == IF res.caught THEN "closed" ELSE http_client

\* mutant: the except branch sends the request once more
AttemptsRetry(n, res) == IF res.caught THEN n + 1 ELSE n

\* the number of http_client.get calls made when call_mock_api / call_risk_api
\* returns: the one before the await, the except branch makes none
Attempts(n, res) == n

\* the global http_client after a handler ran: no handler assigns it
ClientAfterCall(res) == http_client

\* mutant: the filters moved into params with arguments.pop(k)
ArgumentsPopped(arguments) ==
    IF DOMAIN arguments \subseteq {"path_params", "query_params"} /\ DOMAIN arguments # {}
    THEN arguments
    ELSE [k \in {j \in DOMAIN arguments : ~Truthy(arguments[j])} \cup
                (DOMAIN arguments \ {"status", "category", "supplier_id", "requester",
                                      "po_number", "supplier_name", "rfp_id"})
            |-> arguments[k]]

\* the caller's mapping after the call: call_tool reads it with get() and
\* [k] and never assigns to it
ArgumentsAfterCall(arguments) == arguments

(***************************************************************************)
(* The handlers that answer without a backend: /health and the OpenAPI     *)
(* document                                                                *)
(***************************************************************************)
\* mutant: a health check that reports the warm-up
health_probed ==
    PyDict(<< <<"status", PyStr(<<IF \E i \in 1..Len(events) :
                                         events[i].e = "get" /\ ~events[i].ok
                                    THEN "degraded" ELSE "healthy">>)>>,
              <<"service", PyStr(<<"ariba-mcp">>)>> >>)

\* {"status": "healthy", "service": "ariba-mcp"}
health == PyDict(<< <<"status", PyStr(<<"healthy">>)>>,
                    <<"service", PyStr(<<"ariba-mcp">>)>> >>)

\* one parameter object of the document
Parameter(name, in, required) == [name |-> name, in |-> in, required |-> required]

\* one entry of spec["paths"]: the path, the operationId of its get operation
\* and its parameters
PathItem(path, operationId, parameters) ==
    [path |-> path, operationId |-> operationId, parameters |-> parameters]

\* mutant: the document without the risk route
OpenApiPathsNoRisk ==
    << PathItem("/dashboard", "getDashboard",
                <<>>),
       PathItem("/suppliers", "listSuppliers",
                <<Parameter("status", "query", FALSE), Parameter("category", "query", FALSE)>>),
       PathItem("/suppliers/{supplier_id}", "getSupplier",
                <<Parameter("supplier_id", "path", TRUE)>>),
       PathItem("/purchase-orders", "listPurchaseOrders",
                <<Parameter("status", "query", FALSE), Parameter("supplier_id", "query", FALSE)>>),
       PathItem("/purchase-orders/{po_id}", "getPurchaseOrder",
                <<Parameter("po_id", "path", TRUE)>>),
       PathItem("/invoices", "listInvoices",
                <<Parameter("status", "query", FALSE), Parameter("po_number", "query", FALSE)>>),
       PathItem("/invoices/{invoice_id}", "getInvoice",
                <<Parameter("invoice_id", "path", TRUE)>>),
       PathItem("/contracts", "listContracts",
                <<Parameter("status", "query", FALSE), Parameter("supplier_name", "query", FALSE)>>),
       PathItem("/contracts/{contract_id}", "getContract",
                <<Parameter("contract_id", "path", TRUE)>>),
       PathItem("/proposals", "listProposals",
                <<Parameter("rfp_id", "query", FALSE), Parameter("supplier_id", "query", FALSE), Parameter("status", "query", FALSE)>>),
       PathItem("/proposals/{proposal_id}", "getProposal",
                <<Parameter("proposal_id", "path", TRUE)>>),
       PathItem("/rfps", "listRfps",
                <<Parameter("status", "query", FALSE)>>),
       PathItem("/rfps/{rfp_id}", "getRfp",
                <<Parameter("rfp_id", "path", TRUE)>>),
       PathItem("/requisitions", "listRequisitions",
                <<Parameter("status", "query", FALSE), Parameter("requester", "query", FALSE)>>),
       PathItem("/requisitions/{req_id}", "getRequisition",
                <<Parameter("req_id", "path", TRUE)>>) >>

\* spec["paths"] of api_openapi_spec, in the order of the literal
OpenApiPaths ==
    << PathItem("/dashboard", "getDashboard",
                <<>>),
       PathItem("/suppliers", "listSuppliers",
                <<Parameter("status", "query", FALSE), Parameter("category", "query", FALSE)>>),
       PathItem("/suppliers/{supplier_id}", "getSupplier",
                <<Parameter("supplier_id", "path", TRUE)>>),
       PathItem("/purchase-orders", "listPurchaseOrders",
                <<Parameter("status", "query", FALSE), Parameter("supplier_id", "query", FALSE)>>),
       PathItem("/purchase-orders/{po_id}", "getPurchaseOrder",
                <<Parameter("po_id", "path", TRUE)>>),
       PathItem("/invoices", "listInvoices",
                <<Parameter("status", "query", FALSE), Parameter("po_number", "query", FALSE)>>),
       PathItem("/invoices/{invoice_id}", "getInvoice",
                <<Parameter("invoice_id", "path", TRUE)>>),
       PathItem("/contracts", "listContracts",
                <<Parameter("status", "query", FALSE), Parameter("supplier_name", "query", FALSE)>>),
       PathItem("/contracts/{contract_id}", "getContract",
                <<Parameter("contract_id", "path", TRUE)>>),
       PathItem("/proposals", "listProposals",
                <<Parameter("rfp_id", "query", FALSE), Parameter("supplier_id", "query", FALSE), Parameter("status", "query", FALSE)>>),
       PathItem("/proposals/{proposal_id}", "getProposal",
                <<Parameter("proposal_id", "path", TRUE)>>),
       PathItem("/rfps", "listRfps",
                <<Parameter("status", "query", FALSE)>>),
       PathItem("/rfps/{rfp_id}", "getRfp",
                <<Parameter("rfp_id", "path", TRUE)>>),
       PathItem("/risk/{supplier_id}", "getRiskScore",
                <<Parameter("supplier_id", "path", TRUE)>>),
       PathItem("/requisitions", "listRequisitions",
                <<Parameter("status", "query", FALSE), Parameter("requester", "query", FALSE)>>),
       PathItem("/requisitions/{req_id}", "getRequisition",
                <<Parameter("req_id", "path", TRUE)>>) >>

\* a parameter object as the document holds it
ParameterValue(p) ==
    PyDict(<< <<"name", PyStr(<<p.name>>)>>, <<"in", PyStr(<<p.in>>)>> >>
           \o (IF p.required THEN << <<"required", PyBool(TRUE)>> >> ELSE <<>>)
           \o << <<"schema", PyDict(<< <<"type", PyStr(<<"string">>)>> >>)>> >>)

\* a path item as the document holds it; summary and responses left out
PathItemValue(item) ==
    PyDict(<< <<"get",
              PyDict(<< <<"operationId", PyStr(<<item.operationId>>)>> >>
                     \o (IF item.parameters = <<>> THEN <<>>
                         ELSE << <<"parameters",
                                   PyList([i \in 1..Len(item.parameters) |->
                                              ParameterValue(item.parameters[i])])>> >>))>> >>)

\* scheme and host of the servers entry: the forwarded ones when the request
\* carries them
BaseUrl(request) ==
    LET scheme == IF "x-forwarded-proto" \in DOMAIN request.headers
                  THEN request.headers["x-forwarded-proto"] ELSE request.scheme
        host == IF "x-forwarded-host" \in DOMAIN request.headers
                THEN request.headers["x-forwarded-host"] ELSE request.netloc
    IN  <<scheme, "://", host, "/api/v1">>

\* api_openapi_spec(request): the document, info left out
api_openapi_spec(request) ==
    PyDict(<< <<"openapi", PyStr(<<"3.0.0">>)>>,
              <<"servers", PyList(<< PyDict(<< <<"url", PyStr(BaseUrl(request))>> >>) >>)>>,
              <<"paths", PyDict([i \in 1..Len(OpenApiPaths) |->
                                    <<OpenApiPaths[i].path,
                                      PathItemValue(OpenApiPaths[i])>>])>> >>)

(***************************************************************************)
(* The environment: callers and backends                                   *)
(***************************************************************************)
UnknownNames == {"delete_supplier", "GET_SUPPLIER"}

ToolNames == CatalogNames \cup UnknownNames

\* the number of distinct non-empty values an argument takes
NumValues == 1

SampleValues == <<"SUP-1000", "Active", "RFP-2026-001">>

\* an argument is the empty string or one of the first NumValues samples
ArgValues ==
    {PyStr(<<>>)} \cup {PyStr(<<SampleValues[i]>>) : i \in 1..NumValues}

\* a key no tool declares
ExtraKey == "limit"

ExtraValues == {PyStr(<<"10">>)}

ArgKeysOf(name) ==
    IF name \in CatalogNames THEN CatalogProperties(name) ELSE {"supplier_id"}

\* the argument mappings a caller sends: any subset of the declared
\* properties, each empty or not, with or without an undeclared key
ArgumentsOf(name) ==
    UNION {{f \in [S \cup E -> ArgValues \cup ExtraValues] :
                \A k \in S \cup E : (f[k] \in ExtraValues) <=> (k = ExtraKey)} :
           S \in SUBSET ArgKeysOf(name), E \in {{}, {ExtraKey}}}

Handlers == {DataRoutes[i][1] : i \in 1..Len(DataRoutes)}

PathParamOf(handler) ==
    CHOOSE k \in {DataRoutes[i][2] : i \in {j \in 1..Len(DataRoutes) :
                                                DataRoutes[j][1] = handler}} : TRUE

PathIds == {PyStr(<<"SUP-1000">>), PyStr(<<"X-404">>)}

\* a path parameter is there whenever its route matched
PathParamsOf(handler) ==
    IF PathParamOf(handler) = "" THEN {[k \in {} |-> PyNone]}
    ELSE [{PathParamOf(handler)} -> PathIds]

QueryParamsOf(handler) ==
    UNION {[S -> ArgValues] : S \in SUBSET QueryKeysOf(handler)}

SupplierRecord ==
    PyDict(<< <<"id", PyStr(<<"SUP-1000">>)>>,
              <<"name", PyStr(<<"ERPMax Solutions">>)>>,
              <<"risk_score", PyInt(25)>>,
              <<"preferred", PyBool(TRUE)>>,
              <<"parent", PyNone>>,
              <<"items", PyList(<< PyDict(<< <<"description", PyStr(<<"Laptop">>)>>,
                                              <<"quantity", PyInt(2)>> >>),
                                    PyDict(<< <<"description", PyStr(<<"Dock">>)>>,
                                              <<"quantity", PyInt(1)>> >>) >>)>> >>)

OrderList ==
    PyList(<< PyDict(<< <<"id", PyStr(<<"PO-2024000">>)>>, <<"total_amount", PyInt(100)>> >>),
              PyDict(<< <<"id", PyStr(<<"PO-2024001">>)>>, <<"total_amount", PyInt(250)>> >>) >>)

Summary ==
    PyDict(<< <<"suppliers", PyDict(<< <<"total", PyInt(3)>>, <<"active", PyInt(2)>> >>)>>,
              <<"contracts", PyDict(<<>>)>> >>)

NotFoundBody ==
    PyDict(<< <<"error", PyStr(<<"Supplier '", "X-404", "' not found">>)>> >>)

JsonBodies == {PyList(<<>>), SupplierRecord, OrderList, Summary}

\* jsonify(v): the compact text and a newline
Jsonify(v) == Dumps(v, -1, 0) \o <<Newline(0)>>

HtmlBody == <<RawTok("<html>Bad Gateway</html>")>>

NoValue == [t |-> "absent"]

Outcomes ==
    {Response(200, Jsonify(v), v) : v \in JsonBodies}
    \cup {Response(200, Dumps(OrderList, 2, 0), OrderList),
          Response(200, HtmlBody, NoValue),
          Response(200, <<>>, NoValue),
          Response(404, Jsonify(NotFoundBody), NotFoundBody),
          Response(500, HtmlBody, NoValue),
          TransportError("ReadTimeout", <<>>),
          TransportError("ConnectError", <<"All connection attempts failed">>)}

(***************************************************************************)
(* State                                                                   *)
(***************************************************************************)
Idle == [pc |-> "idle"]

\* an empty argument mapping
NoArguments == [k \in {} |-> PyNone]

NoMark == [set |-> FALSE]

NoExchange == [state |-> "none", generated |-> FALSE]

Init ==
    /\ http_client = "None"
    /\ phase = "start"
    /\ cur = Idle
    /\ mark = NoMark
    /\ suspended = <<>>
    /\ events = <<>>
    /\ writes = <<>>
    /\ last = NoExchange

\* an invocation that reached http_client.get: the request is out when the
\* client is open; a client that is None or closed raises before sending
Started(via, name, arguments, d) ==
    IF http_client = "open"
    THEN [pc |-> "awaiting", via |-> via, name |-> name, arguments |-> arguments,
          left |-> ArgumentsAfterCall(arguments), request |-> ApiRequest(d), gets |-> 1]
    ELSE [pc |-> "raised", via |-> via, name |-> name, arguments |-> arguments,
          left |-> ArgumentsAfterCall(arguments), gets |-> 0, ending |-> "raised",
          exc |-> IF http_client = "None" THEN "AttributeError" ELSE "RuntimeError"]

Failed(inv) == inv.ending \in {"error", "unknown", "raised"}

\* history: the completed invocations that may be remembered
MarkOutcomes ==
    {Response(200, Jsonify(PyList(<<>>)), PyList(<<>>)),
     Response(404, Jsonify(NotFoundBody), NotFoundBody),
     TransportError("ReadTimeout", <<>>)}

Eligible(inv) ==
    /\ inv.via = "tool"
    /\ DOMAIN inv.arguments = {}
    /\ inv.ending # "unknown" => inv.gets = 1 /\ inv.outcome \in MarkOutcomes

Marks(inv, marking) ==
    {IF mark.set /\ Failed(inv) THEN [mark EXCEPT !.failed_since = TRUE] ELSE mark}
    \cup (IF marking /\ Eligible(inv)
          THEN {[set |-> TRUE, inv |-> inv, failed_since |-> FALSE]}
          ELSE {})

(***************************************************************************)
(* lifespan                                                                *)
(***************************************************************************)
\* history: the constructor or aclose() ran, with the value of the global
\* http_client it found
ClientEvent(e, client) == [e |-> e, url |-> <<>>, client |-> client, ok |-> TRUE]

\* history: http_client.get(url) was called, with the state of the client,
\* and whether it returned a response (ok) or raised
GetEvent(url, client, ok) == [e |-> "get", url |-> url, client |-> client, ok |-> ok]

\* mutant: warm-up run without the client having been constructed
LifespanStartupLate ==
    /\ phase = "start"
    /\ phase' = "warm_mock"
    /\ UNCHANGED <<http_client, cur, mark, suspended, events, backend_vars>>

\* http_client = httpx.AsyncClient(...)
LifespanStartup ==
    /\ phase = "start"
    /\ http_client' = "open"
    /\ phase' = "warm_mock"
    /\ events' = Append(events, ClientEvent("AsyncClient", http_client))
    /\ UNCHANGED <<cur, mark, suspended, backend_vars>>

\* mutant: a failed probe of the mock backend leaves warmup_connections as an
\* exception, and the startup with it
WarmupMockFatal(ok) ==
    /\ phase = "warm_mock"
    /\ phase' = IF ok THEN "warm_risk" ELSE "failed"
    /\ events' = Append(events, GetEvent(<<MOCK_API_URL, "/health">>, http_client, ok))
    /\ UNCHANGED <<http_client, cur, mark, suspended, backend_vars>>

\* warmup_connections: GET {MOCK_API_URL}/health, any exception printed
WarmupMock(ok) ==
    /\ phase = "warm_mock"
    /\ phase' = "warm_risk"
    /\ events' = Append(events, GetEvent(<<MOCK_API_URL, "/health">>, http_client, ok))
    /\ UNCHANGED <<http_client, cur, mark, suspended, backend_vars>>

\* warmup_connections: GET {RISK_API_URL}/health, any exception printed; yield
WarmupRisk(ok) ==
    /\ phase = "warm_risk"
    /\ phase' = "serving"
    /\ events' = Append(events, GetEvent(<<RISK_API_URL, "/health">>, http_client, ok))
    /\ UNCHANGED <<http_client, cur, mark, suspended, backend_vars>>

\* await http_client.aclose(), once the server has no request in flight
LifespanShutdown ==
    /\ phase = "serving"
    /\ cur = Idle
    /\ suspended = <<>>
    /\ http_client' = "closed"
    /\ phase' = "stopped"
    /\ events' = Append(events, ClientEvent("aclose", http_client))
    /\ UNCHANGED <<cur, mark, suspended, backend_vars>>

(***************************************************************************)
(* Invocations                                                             *)
(***************************************************************************)
\* call_tool(name, arguments) up to its await, or to its return for an
\* unknown name
CallTool(name, arguments, marking) ==
    /\ phase = "serving"
    /\ cur = Idle
    /\ LET d == call_tool(name, arguments)
           inv == IF d.known THEN Started("tool", name, arguments, d)
                  ELSE [pc |-> "returned", via |-> "tool", name |-> name,
                        arguments |-> arguments, left |-> ArgumentsAfterCall(arguments),
                        gets |-> 0, ending |-> "unknown",
                        envelope |-> UnknownToolResult(d)]
       IN  /\ cur' = inv
           /\ mark' \in (IF inv.pc = "awaiting" THEN {mark} ELSE Marks(inv, marking))
    /\ UNCHANGED <<http_client, phase, suspended, events, backend_vars>>

\* a REST facade handler up to its await
ApiRoute(handler, path_params, query_params) ==
    /\ phase = "serving"
    /\ cur = Idle
    /\ cur' = Started("rest", handler,
                      [path_params |-> path_params, query_params |-> query_params],
                      api_handler(handler, path_params, query_params))
    /\ mark' \in (IF cur'.pc = "awaiting" THEN {mark} ELSE Marks(cur', FALSE))
    /\ UNCHANGED <<http_client, phase, suspended, events, backend_vars>>

\* an awaiting invocation after its exchange ended in outcome
Completed(awaiting, outcome) ==
    LET res == ApiResult(awaiting.request, outcome)
        base == [via |-> awaiting.via, name |-> awaiting.name,
                 arguments |-> awaiting.arguments, left |-> awaiting.left,
                 request |-> awaiting.request,
                 gets |-> Attempts(awaiting.gets, res), outcome |-> outcome]
    IN  IF res.raised
        THEN base @@ [pc |-> "raised", ending |-> "raised", exc |-> res.exc]
        ELSE IF awaiting.via = "tool"
        THEN base @@ [pc |-> "returned",
                      ending |-> IF res.caught THEN "error" ELSE "ok",
                      result |-> res.value,
                      envelope |-> ToolResult(res.value)]
        ELSE base @@ [pc |-> "returned",
                      ending |-> IF res.caught THEN "error" ELSE "ok",
                      result |-> res.value,
                      response |-> JSONResponse(res.value)]

\* a handler that returns JSONResponse(result) without awaiting a backend
Direct(name, result) ==
    [pc |-> "returned", via |-> "direct", name |-> name, arguments |-> NoArguments,
     gets |-> 0, ending |-> "ok", result |-> result, response |-> JSONResponse(result)]

\* GET /health
Health ==
    /\ phase = "serving"
    /\ cur = Idle
    /\ cur' = Direct("health", health)
    /\ UNCHANGED <<http_client, phase, mark, suspended, events, backend_vars>>

\* the requests for the document: as the server sees them, and behind a proxy
DocumentRequests ==
    {[scheme |-> "http", netloc |-> "localhost:8000", headers |-> [k \in {} |-> ""]],
     [scheme |-> "http", netloc |-> "localhost:8000",
      headers |-> [k \in {"x-forwarded-proto", "x-forwarded-host"} |->
                      IF k = "x-forwarded-proto" THEN "https" ELSE "gateway.example"]]}

\* GET /api/v1/openapi.json
ApiOpenApiSpec ==
    /\ phase = "serving"
    /\ cur = Idle
    /\ \E request \in DocumentRequests :
           cur' = Direct("api_openapi_spec", api_openapi_spec(request))
    /\ UNCHANGED <<http_client, phase, mark, suspended, events, backend_vars>>

\* the exchange ends: the rest of call_mock_api / call_risk_api and of the
\* handler that awaited it
ApiReturn(outcome, marking) ==
    /\ cur.pc = "awaiting"
    /\ CanEnd(cur.request, outcome)
    /\ LET res == ApiResult(cur.request, outcome)
           inv == Completed(cur, outcome)
       IN  /\ cur' = inv
           /\ mark' \in Marks(inv, marking)
           /\ http_client' = ClientAfterCall(res)
    /\ UNCHANGED <<phase, suspended, events, backend_vars>>

\* the framework hands the result (or the error) to the caller
Deliver ==
    /\ cur.pc \in {"returned", "raised"}
    /\ cur' = Idle
    /\ UNCHANGED <<http_client, phase, mark, suspended, events, backend_vars>>

\* the number of invocations that can wait at their await at once
MaxSuspended == 2

\* await http_client.get(...): the coroutine yields and the event loop is
\* free to run another handler
Suspend ==
    /\ cur.pc = "awaiting"
    /\ Len(suspended) < MaxSuspended
    /\ suspended' = Append(suspended, cur)
    /\ cur' = Idle
    /\ UNCHANGED <<http_client, phase, mark, events, backend_vars>>

\* the event loop resumes a waiting coroutine, in any order
Wake(i) ==
    /\ cur = Idle
    /\ i \in 1..Len(suspended)
    /\ cur' = suspended[i]
    /\ suspended' = SubSeq(suspended, 1, i - 1) \o SubSeq(suspended, i + 1, Len(suspended))
    /\ UNCHANGED <<http_client, phase, mark, events, backend_vars>>

Lifecycle ==
    \/ LifespanStartup
    \/ \E ok \in BOOLEAN : WarmupMock(ok)
    \/ \E ok \in BOOLEAN : WarmupRisk(ok)
    \/ LifespanShutdown

\* the lifespan when both backends answer the warm-up
LifecycleWarm ==
    \/ LifespanStartup
    \/ WarmupMock(TRUE)
    \/ WarmupRisk(TRUE)
    \/ LifespanShutdown

ToolInvocations ==
    UNION {{<<name, arguments>> : arguments \in ArgumentsOf(name)} : name \in ToolNames}

FacadeRequests ==
    UNION {{<<handler, path_params, query_params>> :
                path_params \in PathParamsOf(handler),
                query_params \in QueryParamsOf(handler)} : handler \in Handlers}

ToolCalls(marking) ==
    /\ cur = Idle
    /\ \E inv \in ToolInvocations : CallTool(inv[1], inv[2], marking)

Facade ==
    /\ cur = Idle
    /\ \E req \in FacadeRequests : ApiRoute(req[1], req[2], req[3])

Next ==
    \/ Lifecycle
    \/ ToolCalls(FALSE)
    \/ Facade
    \/ Health
    \/ ApiOpenApiSpec
    \/ \E outcome \in Outcomes : ApiReturn(outcome, FALSE)
    \/ Deliver

Spec == Init /\ [][Next]_vars

\* the timer of timeout=30.0 runs while the exchange is pending: a backend
\* may stay silent, the timer does not
TimerExpires ==
    \E outcome \in {o \in Outcomes : IsTimeout(o)} : ApiReturn(outcome, FALSE)

SpecLive == Spec /\ WF_vars(TimerExpires)

\* the tool interface alone with one backend outcome of each kind, the history
\* variable recording
HistOutcomes ==
    MarkOutcomes
    \cup {Response(200, HtmlBody, NoValue),
          TransportError("ConnectError", <<"All connection attempts failed">>)}

NextHist ==
    \/ LifecycleWarm
    \/ ToolCalls(TRUE)
    \/ \E outcome \in HistOutcomes : ApiReturn(outcome, TRUE)
    \/ Deliver

SpecHist == Init /\ [][NextHist]_vars

\* concurrent invocations of a few tools: any number up to MaxSuspended + 1 in
\* flight, resumed in any order
ConcNames == {"list_suppliers", "risk_get_score", "delete_supplier"}

ConcInvocations ==
    {inv \in ToolInvocations : inv[1] \in ConcNames /\ ExtraKey \notin DOMAIN inv[2]}

ConcCalls ==
    /\ cur = Idle
    /\ \E inv \in ConcInvocations : CallTool(inv[1], inv[2], FALSE)

NextConc ==
    \/ LifecycleWarm
    \/ ConcCalls
    \/ Suspend
    \/ \E i \in 1..MaxSuspended : Wake(i)
    \/ \E outcome \in MarkOutcomes : ApiReturn(outcome, FALSE)
    \/ Deliver

SpecConc == Init /\ [][NextConc]_vars


(***************************************************************************)
(* The backends (src/mock/app.py, src/risk/app.py): their tables and the   *)
(* string operations their filters use                                     *)
(***************************************************************************)
\* the characters of a text as one string
RECURSIVE Flat(_)
Flat(text) == IF text = <<>> THEN "" ELSE Head(text) \o Flat(Tail(text))

UpperCase == "ABCDEFGHIJKLMNOPQRSTUVWXYZ"
LowerCase == "abcdefghijklmnopqrstuvwxyz"

RECURSIVE LowerChar(_, _)
LowerChar(c, i) ==
    IF i > Len(UpperCase) THEN c
    ELSE IF SubSeq(UpperCase, i, i) = c THEN SubSeq(LowerCase, i, i)
    ELSE LowerChar(c, i + 1)

\* mutant: a lower() that leaves every character as it is
LowerStrKeep(s) == s

\* s.lower()
RECURSIVE LowerStr(_)
LowerStr(s) ==
    IF s = "" THEN ""
    ELSE LowerChar(SubSeq(s, 1, 1), 1) \o LowerStr(SubSeq(s, 2, Len(s)))

\* a in b, for strings
StrIn(a, b) ==
    \E i \in 0..(Len(b) - Len(a)) : SubSeq(b, i + 1, i + Len(a)) = a

\* generate_mock_data(): the seven tables, each record cut down to its key and
\* the fields the endpoints read (the amounts are whole numbers)
generate_mock_data ==
   [
     suppliers_db |->
        PyDict(<<
            <<"SUP-1000", PyDict(<< <<"id", PyStr(<<"SUP-1000">>)>>, <<"status", PyStr(<<"Active">>)>>, <<"category", PyStr(<<"ERP Software">>)>> >>)>>,
            <<"SUP-1001", PyDict(<< <<"id", PyStr(<<"SUP-1001">>)>>, <<"status", PyStr(<<"Active">>)>>, <<"category", PyStr(<<"ERP Software">>)>> >>)>>,
            <<"SUP-1002", PyDict(<< <<"id", PyStr(<<"SUP-1002">>)>>, <<"status", PyStr(<<"Active">>)>>, <<"category", PyStr(<<"ERP Software">>)>> >>)>>,
            <<"SUP-1003", PyDict(<< <<"id", PyStr(<<"SUP-1003">>)>>, <<"status", PyStr(<<"Active">>)>>, <<"category", PyStr(<<"ERP Software">>)>> >>)>>,
            <<"SUP-1004", PyDict(<< <<"id", PyStr(<<"SUP-1004">>)>>, <<"status", PyStr(<<"Active">>)>>, <<"category", PyStr(<<"Legacy Software">>)>> >>)>> >>),
     purchase_orders_db |->
        PyDict(<<
            <<"PO-2024001", PyDict(<< <<"id", PyStr(<<"PO-2024001">>)>>, <<"status", PyStr(<<"Closed">>)>>, <<"supplier_id", PyStr(<<"SUP-1000">>)>>, <<"total_amount", PyInt(125000)>> >>)>>,
            <<"PO-2024002", PyDict(<< <<"id", PyStr(<<"PO-2024002">>)>>, <<"status", PyStr(<<"Closed">>)>>, <<"supplier_id", PyStr(<<"SUP-1000">>)>>, <<"total_amount", PyInt(45000)>> >>)>>,
            <<"PO-2025001", PyDict(<< <<"id", PyStr(<<"PO-2025001">>)>>, <<"status", PyStr(<<"Closed">>)>>, <<"supplier_id", PyStr(<<"SUP-1000">>)>>, <<"total_amount", PyInt(97500)>> >>)>>,
            <<"PO-2025002", PyDict(<< <<"id", PyStr(<<"PO-2025002">>)>>, <<"status", PyStr(<<"Received">>)>>, <<"supplier_id", PyStr(<<"SUP-1000">>)>>, <<"total_amount", PyInt(35000)>> >>)>>,
            <<"PO-2025003", PyDict(<< <<"id", PyStr(<<"PO-2025003">>)>>, <<"status", PyStr(<<"Closed">>)>>, <<"supplier_id", PyStr(<<"SUP-1002">>)>>, <<"total_amount", PyInt(15000)>> >>)>>,
            <<"PO-2025004", PyDict(<< <<"id", PyStr(<<"PO-2025004">>)>>, <<"status", PyStr(<<"Acknowledged">>)>>, <<"supplier_id", PyStr(<<"SUP-1002">>)>>, <<"total_amount", PyInt(8500)>> >>)>>,
            <<"PO-2024003", PyDict(<< <<"id", PyStr(<<"PO-2024003">>)>>, <<"status", PyStr(<<"Closed">>)>>, <<"supplier_id", PyStr(<<"SUP-1001">>)>>, <<"total_amount", PyInt(75000)>> >>)>>,
            <<"PO-2025005", PyDict(<< <<"id", PyStr(<<"PO-2025005">>)>>, <<"status", PyStr(<<"Approved">>)>>, <<"supplier_id", PyStr(<<"SUP-1003">>)>>, <<"total_amount", PyInt(85000)>> >>)>>,
            <<"PO-2025006", PyDict(<< <<"id", PyStr(<<"PO-2025006">>)>>, <<"status", PyStr(<<"Pending Approval">>)>>, <<"supplier_id", PyStr(<<"SUP-1002">>)>>, <<"total_amount", PyInt(75000)>> >>)>>,
            <<"PO-2025007", PyDict(<< <<"id", PyStr(<<"PO-2025007">>)>>, <<"status", PyStr(<<"Draft">>)>>, <<"supplier_id", PyStr(<<"SUP-1000">>)>>, <<"total_amount", PyInt(50000)>> >>)>>,
            <<"PO-2023001", PyDict(<< <<"id", PyStr(<<"PO-2023001">>)>>, <<"status", PyStr(<<"Closed">>)>>, <<"supplier_id", PyStr(<<"SUP-1004">>)>>, <<"total_amount", PyInt(120000)>> >>)>> >>),
     requisitions_db |->
        PyDict(<<
            <<"REQ-3024001", PyDict(<< <<"id", PyStr(<<"REQ-3024001">>)>>, <<"status", PyStr(<<"Approved">>)>>, <<"requester", PyStr(<<"John Smith">>)>>, <<"approval_status", PyStr(<<"Approved">>)>> >>)>>,
            <<"REQ-3024002", PyDict(<< <<"id", PyStr(<<"REQ-3024002">>)>>, <<"status", PyStr(<<"Pending Approval">>)>>, <<"requester", PyStr(<<"Jane Doe">>)>>, <<"approval_status", PyStr(<<"Pending">>)>> >>)>>,
            <<"REQ-3024003", PyDict(<< <<"id", PyStr(<<"REQ-3024003">>)>>, <<"status", PyStr(<<"Submitted">>)>>, <<"requester", PyStr(<<"Bob Wilson">>)>>, <<"approval_status", PyStr(<<"Pending">>)>> >>)>> >>),
     invoices_db |->
        PyDict(<<
            <<"INV-4024001", PyDict(<< <<"id", PyStr(<<"INV-4024001">>)>>, <<"status", PyStr(<<"Paid">>)>>, <<"po_number", PyStr(<<"PO-2024001">>)>>, <<"amount", PyInt(125000)>> >>)>>,
            <<"INV-4024002", PyDict(<< <<"id", PyStr(<<"INV-4024002">>)>>, <<"status", PyStr(<<"Paid">>)>>, <<"po_number", PyStr(<<"PO-2024002">>)>>, <<"amount", PyInt(45000)>> >>)>>,
            <<"INV-4025001", PyDict(<< <<"id", PyStr(<<"INV-4025001">>)>>, <<"status", PyStr(<<"Paid">>)>>, <<"po_number", PyStr(<<"PO-2025001">>)>>, <<"amount", PyInt(97500)>> >>)>>,
            <<"INV-4025002", PyDict(<< <<"id", PyStr(<<"INV-4025002">>)>>, <<"status", PyStr(<<"Under Review">>)>>, <<"po_number", PyStr(<<"PO-2025002">>)>>, <<"amount", PyInt(35000)>> >>)>>,
            <<"INV-4025003", PyDict(<< <<"id", PyStr(<<"INV-4025003">>)>>, <<"status", PyStr(<<"Paid">>)>>, <<"po_number", PyStr(<<"PO-2025003">>)>>, <<"amount", PyInt(15000)>> >>)>>,
            <<"INV-4025004", PyDict(<< <<"id", PyStr(<<"INV-4025004">>)>>, <<"status", PyStr(<<"Submitted">>)>>, <<"po_number", PyStr(<<"PO-2025004">>)>>, <<"amount", PyInt(8500)>> >>)>>,
            <<"INV-4024003", PyDict(<< <<"id", PyStr(<<"INV-4024003">>)>>, <<"status", PyStr(<<"Paid">>)>>, <<"po_number", PyStr(<<"PO-2024003">>)>>, <<"amount", PyInt(75000)>> >>)>>,
            <<"INV-4025005", PyDict(<< <<"id", PyStr(<<"INV-4025005">>)>>, <<"status", PyStr(<<"Submitted">>)>>, <<"po_number", PyStr(<<"PO-2025005">>)>>, <<"amount", PyInt(85000)>> >>)>>,
            <<"INV-4025006", PyDict(<< <<"id", PyStr(<<"INV-4025006">>)>>, <<"status", PyStr(<<"Rejected">>)>>, <<"po_number", PyStr(<<"PO-2025002">>)>>, <<"amount", PyInt(42000)>> >>)>>,
            <<"INV-4023001", PyDict(<< <<"id", PyStr(<<"INV-4023001">>)>>, <<"status", PyStr(<<"Paid">>)>>, <<"po_number", PyStr(<<"PO-2023001">>)>>, <<"amount", PyInt(120000)>> >>)>> >>),
     contracts_db |->
        PyDict(<<
            <<"CON-5024001", PyDict(<< <<"id", PyStr(<<"CON-5024001">>)>>, <<"status", PyStr(<<"Active">>)>>, <<"supplier_name", PyStr(<<"ERPMax Solutions">>)>>, <<"value", PyInt(450000)>> >>)>>,
            <<"CON-5025001", PyDict(<< <<"id", PyStr(<<"CON-5025001">>)>>, <<"status", PyStr(<<"Active">>)>>, <<"supplier_name", PyStr(<<"CloudFirst ERP">>)>>, <<"value", PyInt(25000)>> >>)>>,
            <<"CON-5024002", PyDict(<< <<"id", PyStr(<<"CON-5024002">>)>>, <<"status", PyStr(<<"Active">>)>>, <<"supplier_name", PyStr(<<"IntegraPro Systems">>)>>, <<"value", PyInt(200000)>> >>)>>,
            <<"CON-5023001", PyDict(<< <<"id", PyStr(<<"CON-5023001">>)>>, <<"status", PyStr(<<"Expired">>)>>, <<"supplier_name", PyStr(<<"ERPMax Solutions">>)>>, <<"value", PyInt(180000)>> >>)>>,
            <<"CON-5025002", PyDict(<< <<"id", PyStr(<<"CON-5025002">>)>>, <<"status", PyStr(<<"Active">>)>>, <<"supplier_name", PyStr(<<"ERP Max Solutions Inc">>)>>, <<"value", PyInt(100000)>> >>)>>,
            <<"CON-5022001", PyDict(<< <<"id", PyStr(<<"CON-5022001">>)>>, <<"status", PyStr(<<"Active">>)>>, <<"supplier_name", PyStr(<<"Legacy Systems Corp">>)>>, <<"value", PyInt(240000)>> >>)>>,
            <<"CON-5024003", PyDict(<< <<"id", PyStr(<<"CON-5024003">>)>>, <<"status", PyStr(<<"Active">>)>>, <<"supplier_name", PyStr(<<"ERPMax Solutions">>)>>, <<"value", PyInt(30000)>> >>)>> >>),
     rfps_db |->
        PyDict(<<
            <<"RFP-2026-001", PyDict(<< <<"id", PyStr(<<"RFP-2026-001">>)>>, <<"status", PyStr(<<"Open">>)>> >>)>>,
            <<"RFP-2026-002", PyDict(<< <<"id", PyStr(<<"RFP-2026-002">>)>>, <<"status", PyStr(<<"Open">>)>> >>)>> >>),
     proposals_db |->
        PyDict(<<
            <<"PROP-6024001", PyDict(<< <<"id", PyStr(<<"PROP-6024001">>)>>, <<"rfp_id", PyStr(<<"RFP-2026-001">>)>>, <<"supplier_id", PyStr(<<"SUP-1000">>)>>, <<"status", PyStr(<<"Under Review">>)>> >>)>>,
            <<"PROP-6024002", PyDict(<< <<"id", PyStr(<<"PROP-6024002">>)>>, <<"rfp_id", PyStr(<<"RFP-2026-001">>)>>, <<"supplier_id", PyStr(<<"SUP-1001">>)>>, <<"status", PyStr(<<"Under Review">>)>> >>)>>,
            <<"PROP-6024003", PyDict(<< <<"id", PyStr(<<"PROP-6024003">>)>>, <<"rfp_id", PyStr(<<"RFP-2026-001">>)>>, <<"supplier_id", PyStr(<<"SUP-1002">>)>>, <<"status", PyStr(<<"Under Review">>)>> >>)>> >>) ]

\* generate_risk_data(): the risk table, each record cut down to the fields the
\* endpoints read; overall_risk_score in tenths
generate_risk_data ==
   [
     risk_scores_db |->
        PyDict(<<
            <<"SUP-1000", PyDict(<< <<"supplier_id", PyStr(<<"SUP-1000">>)>>, <<"supplier_name", PyStr(<<"ERPMax Solutions">>)>>, <<"overall_risk_score", PyInt(21)>>, <<"risk_level", PyStr(<<"Low">>)>> >>)>>,
            <<"SUP-1001", PyDict(<< <<"supplier_id", PyStr(<<"SUP-1001">>)>>, <<"supplier_name", PyStr(<<"IntegraPro Systems">>)>>, <<"overall_risk_score", PyInt(18)>>, <<"risk_level", PyStr(<<"Low">>)>> >>)>>,
            <<"SUP-1002", PyDict(<< <<"supplier_id", PyStr(<<"SUP-1002">>)>>, <<"supplier_name", PyStr(<<"CloudFirst ERP">>)>>, <<"overall_risk_score", PyInt(45)>>, <<"risk_level", PyStr(<<"Medium">>)>> >>)>>,
            <<"SUP-1003", PyDict(<< <<"supplier_id", PyStr(<<"SUP-1003">>)>>, <<"supplier_name", PyStr(<<"ERP Max Solutions Inc">>)>>, <<"overall_risk_score", PyInt(23)>>, <<"risk_level", PyStr(<<"Low">>)>> >>)>>,
            <<"SUP-1004", PyDict(<< <<"supplier_id", PyStr(<<"SUP-1004">>)>>, <<"supplier_name", PyStr(<<"Legacy Systems Corp">>)>>, <<"overall_risk_score", PyInt(75)>>, <<"risk_level", PyStr(<<"High">>)>> >>)>> >>) ]

Generated == generate_mock_data @@ generate_risk_data

\* d[k] = v applied for each write a handler made, in order
RECURSIVE ApplyWrites(_, _, _)
ApplyWrites(d, table, ws) ==
    IF ws = <<>> THEN d
    ELSE ApplyWrites(IF Head(ws).table = table
                     THEN DictSet(d, Head(ws).key, Head(ws).value) ELSE d,
                     table, Tail(ws))

\* a table as it is now
TableNow(table) == ApplyWrites(Generated[table], table, writes)

\* k in d
HasKey(d, k) == IndexOfKey(d.kvs, k, 1) # 0

\* list(d.values())
Values(d) == [i \in 1..Len(d.kvs) |-> d.kvs[i][2]]

\* r[field] as a string
Field(r, field) == Flat(DictValue(r, field).s)

\* [r for r in rows if r[field].lower() == v.lower()]
WhereLowerEq(rows, field, v) ==
    SelectSeq(rows, LAMBDA r : LowerStr(Field(r, field)) = LowerStr(Flat(v.s)))

\* [r for r in rows if r[field] == v]
WhereEq(rows, field, v) ==
    SelectSeq(rows, LAMBDA r : Field(r, field) = Flat(v.s))

\* [r for r in rows if v.lower() in r[field].lower()]
WhereLowerIn(rows, field, v) ==
    SelectSeq(rows, LAMBDA r : StrIn(LowerStr(Flat(v.s)), LowerStr(Field(r, field))))

\* len([r for r in rows if r[field] in values])
CountIn(rows, field, values) ==
    Len(SelectSeq(rows, LAMBDA r : Field(r, field) \in values))

\* sum(r[field] for r in rows)
RECURSIVE SumOf(_, _)
SumOf(rows, field) ==
    IF rows = <<>> THEN 0
    ELSE DictValue(Head(rows), field).n + SumOf(Tail(rows), field)

\* return jsonify(value), status
FlaskResponse(status, value) == Response(status, Jsonify(value), value)

(***************************************************************************)
(* The endpoints of the mock backend                                       *)
(***************************************************************************)
\* mutant: a 404 that does not name the requested id
NotFoundAnonymous(entity, id) ==
    FlaskResponse(404, PyDict(<< <<"error", PyStr(<<entity, " not found">>)>> >>))

\* return jsonify({"error": f"{entity} '{id}' not found"}), 404
NotFound(entity, id) ==
    FlaskResponse(404,
                  PyDict(<< <<"error", PyStr(<<entity, " '">> \o id \o <<"' not found">>)>> >>))

\* if id not in table: 404; return jsonify(table[id])
Detail(table, entity, id) ==
    IF ~HasKey(TableNow(table), Flat(id)) THEN NotFound(entity, id)
    ELSE FlaskResponse(200, DictValue(TableNow(table), Flat(id)))

\* if v: rows = [r for r in rows if ...], the comparison being one of ==
\* on lower(), == and in on lower()
Filtered(rows, v, comparison, field) ==
    IF ~Truthy(v) THEN rows
    ELSE CASE comparison = "lower ==" -> WhereLowerEq(rows, field, v)
           [] comparison = "==" -> WhereEq(rows, field, v)
           [] comparison = "lower in" -> WhereLowerIn(rows, field, v)

dashboard_summary ==
    LET suppliers == Values(TableNow("suppliers_db"))
        orders == Values(TableNow("purchase_orders_db"))
        reqs == Values(TableNow("requisitions_db"))
        invs == Values(TableNow("invoices_db"))
        cons == Values(TableNow("contracts_db"))
    IN  FlaskResponse(200, PyDict(<<
            <<"suppliers", PyDict(<<
                <<"total", PyInt(Len(suppliers))>>,
                <<"active", PyInt(CountIn(suppliers, "status", {"Active"}))>> >>)>>,
            <<"purchase_orders", PyDict(<<
                <<"total", PyInt(Len(orders))>>,
                <<"pending", PyInt(CountIn(orders, "status", {"Draft", "Pending Approval"}))>>,
                <<"total_value", PyInt(SumOf(orders, "total_amount"))>> >>)>>,
            <<"requisitions", PyDict(<<
                <<"total", PyInt(Len(reqs))>>,
                <<"pending_approval", PyInt(CountIn(reqs, "approval_status", {"Pending"}))>> >>)>>,
            <<"invoices", PyDict(<<
                <<"total", PyInt(Len(invs))>>,
                <<"pending_payment", PyInt(CountIn(invs, "status", {"Approved", "Under Review"}))>>,
                <<"total_value", PyInt(SumOf(invs, "amount"))>> >>)>>,
            <<"contracts", PyDict(<<
                <<"total", PyInt(Len(cons))>>,
                <<"active", PyInt(CountIn(cons, "status", {"Active"}))>>,
                <<"total_value", PyInt(SumOf(cons, "value"))>> >>)>> >>))

list_suppliers(args) ==
    LET suppliers == Values(TableNow("suppliers_db"))
        s1 == Filtered(suppliers, DictGet(args, "status"), "lower ==", "status")
        s2 == Filtered(s1, DictGet(args, "category"), "lower ==", "category")
    IN  FlaskResponse(200, PyList(s2))

get_supplier(supplier_id) == Detail("suppliers_db", "Supplier", supplier_id)

list_purchase_orders(args) ==
    LET orders == Values(TableNow("purchase_orders_db"))
        o1 == Filtered(orders, DictGet(args, "status"), "lower ==", "status")
        o2 == Filtered(o1, DictGet(args, "supplier_id"), "==", "supplier_id")
    IN  FlaskResponse(200, PyList(o2))

get_purchase_order(po_id) == Detail("purchase_orders_db", "Purchase order", po_id)

list_requisitions(args) ==
    LET reqs == Values(TableNow("requisitions_db"))
        r1 == Filtered(reqs, DictGet(args, "status"), "lower ==", "status")
        r2 == Filtered(r1, DictGet(args, "requester"), "lower in", "requester")
    IN  FlaskResponse(200, PyList(r2))

get_requisition(req_id) == Detail("requisitions_db", "Requisition", req_id)

list_invoices(args) ==
    LET invs == Values(TableNow("invoices_db"))
        i1 == Filtered(invs, DictGet(args, "status"), "lower ==", "status")
        i2 == Filtered(i1, DictGet(args, "po_number"), "==", "po_number")
    IN  FlaskResponse(200, PyList(i2))

get_invoice(invoice_id) == Detail("invoices_db", "Invoice", invoice_id)

list_contracts(args) ==
    LET cons == Values(TableNow("contracts_db"))
        c1 == Filtered(cons, DictGet(args, "status"), "lower ==", "status")
        c2 == Filtered(c1, DictGet(args, "supplier_name"), "lower in", "supplier_name")
    IN  FlaskResponse(200, PyList(c2))

get_contract(contract_id) == Detail("contracts_db", "Contract", contract_id)

list_proposals(args) ==
    LET props == Values(TableNow("proposals_db"))
        p1 == Filtered(props, DictGet(args, "rfp_id"), "==", "rfp_id")
        p2 == Filtered(p1, DictGet(args, "supplier_id"), "==", "supplier_id")
        p3 == Filtered(p2, DictGet(args, "status"), "lower ==", "status")
    IN  FlaskResponse(200, PyList(p3))

get_proposal(proposal_id) == Detail("proposals_db", "Proposal", proposal_id)

list_rfps(args) ==
    LET rfps == Values(TableNow("rfps_db"))
        r1 == Filtered(rfps, DictGet(args, "status"), "lower ==", "status")
    IN  FlaskResponse(200, PyList(r1))

get_rfp(rfp_id) == Detail("rfps_db", "RFP", rfp_id)

\* the URL map of the mock app: a request is [app, handler, id, args]
MockView(req) ==
    CASE req.handler = "dashboard_summary" -> dashboard_summary
      [] req.handler = "list_suppliers" -> list_suppliers(req.args)
      [] req.handler = "get_supplier" -> get_supplier(req.id)
      [] req.handler = "list_purchase_orders" -> list_purchase_orders(req.args)
      [] req.handler = "get_purchase_order" -> get_purchase_order(req.id)
      [] req.handler = "list_requisitions" -> list_requisitions(req.args)
      [] req.handler = "get_requisition" -> get_requisition(req.id)
      [] req.handler = "list_invoices" -> list_invoices(req.args)
      [] req.handler = "get_invoice" -> get_invoice(req.id)
      [] req.handler = "list_contracts" -> list_contracts(req.args)
      [] req.handler = "get_contract" -> get_contract(req.id)
      [] req.handler = "list_proposals" -> list_proposals(req.args)
      [] req.handler = "get_proposal" -> get_proposal(req.id)
      [] req.handler = "list_rfps" -> list_rfps(req.args)
      [] req.handler = "get_rfp" -> get_rfp(req.id)

(***************************************************************************)
(* The endpoints of the risk backend                                       *)
(***************************************************************************)
\* the moduli hash_val is reduced by, and their least common multiple
HashModuli == {50, 60, 55, 65, 45, 40}

HashPeriod == 257400

\* int(hashlib.md5(supplier_id.encode()).hexdigest(), 16) for the ids that
\* are requested here, reduced modulo HashPeriod: every hash_val % m of the
\* view is unchanged by the reduction
hash_val(supplier_id) ==
    CASE supplier_id = "X-404" -> 58122
      [] supplier_id = "None" -> 11716
      [] supplier_id = "SUP-9999" -> 104679
      [] supplier_id = "SUP-2000" -> 245494
      [] supplier_id = "SUP-2001" -> 237832
      [] supplier_id = "SUP-2002" -> 6469
      [] supplier_id = "SUP-2003" -> 184506
      [] supplier_id = "SUP-2004" -> 219393
      [] supplier_id = "SUP-2005" -> 229761
      [] supplier_id = "SUP-2006" -> 252721
      [] supplier_id = "SUP-2007" -> 162105
      [] supplier_id = "SUP-2008" -> 139690
      [] supplier_id = "SUP-2009" -> 177831
      [] supplier_id = "SUP-2010" -> 113170
      [] supplier_id = "SUP-2011" -> 78741
      [] supplier_id = "SUP-2012" -> 140565
      [] supplier_id = "SUP-2013" -> 116252
      [] supplier_id = "SUP-2014" -> 59368
      [] supplier_id = "SUP-2016" -> 164196
      [] supplier_id = "SUP-2017" -> 182047
      [] supplier_id = "SUP-2024" -> 197449
      [] supplier_id = "SUP-2025" -> 93310
      [] supplier_id = "SUP-2026" -> 96657
      [] supplier_id = "SUP-2028" -> 33673
      [] supplier_id = "SUP-2029" -> 144058
      [] supplier_id = "SUP-2030" -> 189054
      [] supplier_id = "SUP-2031" -> 241626
      [] supplier_id = "SUP-2033" -> 183051
      [] supplier_id = "SUP-2034" -> 233425
      [] supplier_id = "SUP-2035" -> 238624
      [] supplier_id = "SUP-2039" -> 208739
      [] supplier_id = "SUP-2041" -> 6113
      [] supplier_id = "SUP-2042" -> 22478
      [] supplier_id = "SUP-2045" -> 202448
      [] supplier_id = "SUP-2049" -> 201400
      [] supplier_id = "SUP-2051" -> 24738
      [] supplier_id = "SUP-2053" -> 91062
      [] supplier_id = "SUP-2054" -> 154853
      [] supplier_id = "SUP-2062" -> 141384
      [] supplier_id = "SUP-2063" -> 185435
      [] supplier_id = "SUP-2065" -> 153909
      [] supplier_id = "SUP-2066" -> 102786
      [] supplier_id = "SUP-2068" -> 38192
      [] supplier_id = "SUP-2085" -> 194980
      [] supplier_id = "SUP-2092" -> 84814
      [] supplier_id = "SUP-2134" -> 107287
      [] supplier_id = "SUP-2145" -> 81933
      [] supplier_id = "SUP-2149" -> 2295
      [] supplier_id = "SUP-2189" -> 168817
      [] supplier_id = "SUP-2231" -> 1777

\* hash_val % 50
HashMod50(supplier_id) == hash_val(supplier_id) % 50

\* {"name": ..., "score": round(base + (hash_val % m) / 10, 1), "weight": ...,
\* "trend": "unknown"}; base and score in tenths, weight in hundredths
Factor(name, base, h, m, weight) ==
    PyDict(<< <<"name", PyStr(<<name>>)>>,
              <<"score", PyInt(base + (h % m))>>,
              <<"weight", PyInt(weight)>>,
              <<"trend", PyStr(<<"unknown">>)>> >>)

risk_levels == <<"Low", "Medium", "High", "Critical">>

Min(a, b) == IF a < b THEN a ELSE b

\* mutant: the score of an unknown id drawn from a generator whose state
\* advances with every record generated
get_risk_score_unseeded(supplier_id) ==
    IF HasKey(TableNow("risk_scores_db"), Flat(supplier_id))
    THEN FlaskResponse(200, DictValue(TableNow("risk_scores_db"), Flat(supplier_id)))
    ELSE LET drawn == (hash_val(Flat(supplier_id)) + (IF last.generated THEN 7 ELSE 0)) % 50
         IN  FlaskResponse(200,
                 PyDict(<< <<"supplier_id", PyStr(supplier_id)>>,
                           <<"overall_risk_score", PyInt(30 + drawn)>>,
                           <<"data_quality", PyStr(<<"estimated">>)>> >>))

\* mutant: an id the table does not hold answered like a missing record of
\* the mock backend
get_risk_score_strict(supplier_id) ==
    IF HasKey(TableNow("risk_scores_db"), Flat(supplier_id))
    THEN FlaskResponse(200, DictValue(TableNow("risk_scores_db"), Flat(supplier_id)))
    ELSE NotFound("Risk score", supplier_id)

\* mutant: round(base_score / 2.5) in place of int(...)
LevelIndexRounded(base_score) == (base_score + 12) \div 25

\* int(base_score / 2.5), base_score in tenths
LevelIndex(base_score) == base_score \div 25

\* the stored record, or one computed from the id; scores in tenths
get_risk_score(supplier_id) ==
    IF HasKey(TableNow("risk_scores_db"), Flat(supplier_id))
    THEN FlaskResponse(200, DictValue(TableNow("risk_scores_db"), Flat(supplier_id)))
    ELSE LET h == hash_val(Flat(supplier_id))
             base_score == 30 + HashMod50(Flat(supplier_id))
             risk_level == risk_levels[Min(LevelIndex(base_score), 3) + 1]
             factors ==
                 << Factor("Financial Stability", 20, h, 60, 25),
                    Factor("Compliance History", 25, h, 55, 20),
                    Factor("Delivery Performance", 20, h, 65, 20),
                    Factor("Quality Issues", 25, h, 50, 15),
                    Factor("Cybersecurity", 30, h, 45, 10),
                    Factor("ESG Score", 30, h, 40, 10) >>
             dynamic_risk ==
                 PyDict(<< <<"supplier_id", PyStr(supplier_id)>>,
                           <<"supplier_name", PyStr(<<"Supplier ">> \o supplier_id)>>,
                           <<"overall_risk_score", PyInt(base_score)>>,
                           <<"risk_level", PyStr(<<risk_level>>)>>,
                           <<"last_assessed", PyStr(<<"2026-01-01T00:00:00">>)>>,
                           <<"next_review", PyStr(<<"2026-07-01T00:00:00">>)>>,
                           <<"factors", PyList(factors)>>,
                           <<"alerts", PyList(<< PyDict(<<
                               <<"type", PyStr(<<"info">>)>>,
                               <<"message", PyStr(<<"No historical risk data available - baseline assessment generated">>)>>,
                               <<"date", PyStr(<<"2026-01-01T00:00:00">>)>> >>) >>)>>,
                           <<"data_quality", PyStr(<<"estimated">>)>>,
                           <<"note", PyStr(<<"Risk score generated dynamically - no historical data in system">>)>> >>)
         IN  FlaskResponse(200, dynamic_risk)

list_risk_scores == FlaskResponse(200, PyList(Values(TableNow("risk_scores_db"))))

get_high_risk_suppliers ==
    FlaskResponse(200, PyList(SelectSeq(Values(TableNow("risk_scores_db")),
                                        LAMBDA s : Field(s, "risk_level") \in {"High", "Critical"})))

\* the URL map of the risk app
RiskView(req) ==
    CASE req.handler = "get_risk_score" -> get_risk_score(req.id)
      [] req.handler = "list_risk_scores" -> list_risk_scores
      [] req.handler = "get_high_risk_suppliers" -> get_high_risk_suppliers

\* mutant: the risk endpoint stores every record it returns under its id
TableWritesCache(req, response) ==
    IF req.handler = "get_risk_score"
    THEN << [table |-> "risk_scores_db", key |-> Flat(req.id), value |-> response.value] >>
    ELSE <<>>

\* the assignments to a table a handler makes while it answers: none
TableWrites(req, response) == <<>>

(***************************************************************************)
(* Requests to the backends                                                *)
(***************************************************************************)
BackendRequest(app, handler, id, args) ==
    [app |-> app, handler |-> handler, id |-> id, args |-> args]

\* the filter values a client sends for a query parameter
FilterSamples(k) ==
    CASE k = "status" -> {"", "Active", "active", "CLOSED", "under review", "Act", "Open"}
      [] k = "category" -> {"", "ERP Software", "erp software", "ERP"}
      [] k = "supplier_id" -> {"", "SUP-1000", "sup-1000", "SUP-1002"}
      [] k = "requester" -> {"", "john", "Doe", "O", "Alice"}
      [] k = "po_number" -> {"", "PO-2025002", "po-2025002"}
      [] k = "supplier_name" -> {"", "erpmax", "ERP", "Solutions Inc", "Nobody"}
      [] k = "rfp_id" -> {"", "RFP-2026-001", "rfp-2026-001"}

\* a string as a text: the empty string has no token
TextOf(v) == IF v = "" THEN <<>> ELSE <<v>>

\* request.args for a list endpoint: any of its parameters, absent or sent
ArgsOver(keys) ==
    UNION {{f \in [S -> UNION {{PyStr(TextOf(v)) : v \in FilterSamples(k)} : k \in S}] :
                \A k \in S : \E v \in FilterSamples(k) : f[k] = PyStr(TextOf(v))} :
           S \in SUBSET keys}

\* the ids a client asks a detail endpoint for: every key and two that are none
IdsOver(table) ==
    {<<k>> : k \in DictKeys(Generated[table])} \cup {<<"X-404">>, <<"None">>}

\* list endpoint, its table, its query parameters
MockLists ==
    { <<"list_suppliers", "suppliers_db", {"status", "category"}>>,
      <<"list_purchase_orders", "purchase_orders_db", {"status", "supplier_id"}>>,
      <<"list_requisitions", "requisitions_db", {"status", "requester"}>>,
      <<"list_invoices", "invoices_db", {"status", "po_number"}>>,
      <<"list_contracts", "contracts_db", {"status", "supplier_name"}>>,
      <<"list_proposals", "proposals_db", {"rfp_id", "supplier_id", "status"}>>,
      <<"list_rfps", "rfps_db", {"status"}>> }

\* detail endpoint, its table
MockDetails ==
    { <<"get_supplier", "suppliers_db">>,
      <<"get_purchase_order", "purchase_orders_db">>,
      <<"get_requisition", "requisitions_db">>,
      <<"get_invoice", "invoices_db">>,
      <<"get_contract", "contracts_db">>,
      <<"get_proposal", "proposals_db">>,
      <<"get_rfp", "rfps_db">> }

MockRequests ==
    {BackendRequest("mock", "dashboard_summary", <<>>, NoArguments)}
    \cup UNION {{BackendRequest("mock", e[1], <<>>, args) : args \in ArgsOver(e[3])} :
                    e \in MockLists}
    \cup UNION {{BackendRequest("mock", e[1], id, NoArguments) : id \in IdsOver(e[2])} :
                    e \in MockDetails}

\* ids the risk table does not hold, one for each value of hash_val % 50
UnknownIds ==
    {<<"SUP-9999">>, <<"SUP-2000">>, <<"SUP-2001">>, <<"SUP-2002">>,
     <<"SUP-2003">>, <<"SUP-2004">>, <<"SUP-2005">>, <<"SUP-2006">>,
     <<"SUP-2007">>, <<"SUP-2008">>, <<"SUP-2009">>, <<"SUP-2010">>,
     <<"SUP-2011">>, <<"SUP-2012">>, <<"SUP-2013">>, <<"SUP-2014">>,
     <<"SUP-2016">>, <<"SUP-2017">>, <<"SUP-2024">>, <<"SUP-2025">>,
     <<"SUP-2026">>, <<"SUP-2028">>, <<"SUP-2029">>, <<"SUP-2030">>,
     <<"SUP-2031">>, <<"SUP-2033">>, <<"SUP-2034">>, <<"SUP-2035">>,
     <<"SUP-2039">>, <<"SUP-2041">>, <<"SUP-2042">>, <<"SUP-2045">>,
     <<"SUP-2049">>, <<"SUP-2051">>, <<"SUP-2053">>, <<"SUP-2054">>,
     <<"SUP-2062">>, <<"SUP-2063">>, <<"SUP-2065">>, <<"SUP-2066">>,
     <<"SUP-2068">>, <<"SUP-2085">>, <<"SUP-2092">>, <<"SUP-2134">>,
     <<"SUP-2145">>, <<"SUP-2149">>, <<"SUP-2189">>, <<"SUP-2231">>}

RiskRequests ==
    {BackendRequest("risk", "list_risk_scores", <<>>, NoArguments),
     BackendRequest("risk", "get_high_risk_suppliers", <<>>, NoArguments)}
    \cup {BackendRequest("risk", "get_risk_score", id, NoArguments) :
              id \in IdsOver("risk_scores_db") \cup UnknownIds}

\* a request reaches its backend
Receive(req) ==
    /\ last.state # "received"
    /\ last' = [state |-> "received", request |-> req, generated |-> last.generated]
    /\ UNCHANGED <<http_client, phase, cur, mark, suspended, events, writes>>

\* the view ran and the response goes out; generated records that a risk
\* record was computed for an id the table does not hold
Handle(req, response) ==
    /\ writes' = writes \o TableWrites(req, response)
    /\ last' = [state |-> "handled", request |-> req, response |-> response,
                generated |-> last.generated
                              \/ (response.value.t = "dict"
                                  /\ "data_quality" \in DictKeys(response.value))]
    /\ UNCHANGED <<http_client, phase, cur, mark, suspended, events>>

MockRequest ==
    /\ last.state = "received"
    /\ last.request.app = "mock"
    /\ Handle(last.request, MockView(last.request))

RiskRequest ==
    /\ last.state = "received"
    /\ last.request.app = "risk"
    /\ Handle(last.request, RiskView(last.request))

NextBackend ==
    \/ \E req \in MockRequests \cup RiskRequests : Receive(req)
    \/ MockRequest
    \/ RiskRequest

SpecBackend == Init /\ [][NextBackend]_vars

(***************************************************************************)
(* From the request the gateway sends to the view that answers it          *)
(***************************************************************************)
\* the position of the first c in s at or after i, 0 when there is none
RECURSIVE Find(_, _, _)
Find(s, c, i) ==
    IF i > Len(s) THEN 0
    ELSE IF SubSeq(s, i, i) = c THEN i
    ELSE Find(s, c, i + 1)

\* s.split(c)
RECURSIVE SplitOn(_, _)
SplitOn(s, c) ==
    LET i == Find(s, c, 1)
    IN  IF i = 0 THEN <<s>>
        ELSE <<SubSeq(s, 1, i - 1)>> \o SplitOn(SubSeq(s, i + 1, Len(s)), c)

\* the target of a URL without its fragment: '#' ends what is sent
WithoutFragment(target) ==
    LET i == Find(target, "#", 1)
    IN  IF i = 0 THEN target ELSE SubSeq(target, 1, i - 1)

\* the path of a URL: up to the first '?'
UrlPath(target) ==
    LET t == WithoutFragment(target)
        i == Find(t, "?", 1)
    IN  IF i = 0 THEN t ELSE SubSeq(t, 1, i - 1)

\* the query of a URL: after the first '?'
UrlQuery(target) ==
    LET t == WithoutFragment(target)
        i == Find(t, "?", 1)
    IN  IF i = 0 THEN "" ELSE SubSeq(t, i + 1, Len(t))

\* the client drops "." segments and lets ".." drop the segment before it
RECURSIVE NormalizePath(_, _)
NormalizePath(components, output) ==
    IF components = <<>> THEN output
    ELSE LET component == Head(components)
         IN  NormalizePath(Tail(components),
                 IF component = "." THEN output
                 ELSE IF component = ".."
                      THEN IF output # <<>> /\ output # <<"">>
                           THEN SubSeq(output, 1, Len(output) - 1)
                           ELSE output
                 ELSE Append(output, component))

\* the segments of the path that goes on the wire
PathSegments(target) == NormalizePath(SplitOn(UrlPath(target), "/"), <<>>)

\* "k=v" as a pair
QueryPair(item) ==
    LET i == Find(item, "=", 1)
    IN  IF i = 0 THEN <<item, "">>
        ELSE <<SubSeq(item, 1, i - 1), SubSeq(item, i + 1, Len(item))>>

\* the pairs of a query string, in order
QueryPairs(query) ==
    IF query = "" THEN <<>>
    ELSE LET items == SelectSeq(SplitOn(query, "&"), LAMBDA item : item # "")
         IN  [i \in 1..Len(items) |-> QueryPair(items[i])]

\* request.args: args.get(k) is the first value sent for k
RequestArgs(pairs) ==
    [k \in {pairs[i][1] : i \in 1..Len(pairs)} |->
        PyStr(TextOf(pairs[CHOOSE i \in 1..Len(pairs) :
                               /\ pairs[i][1] = k
                               /\ \A j \in 1..(i - 1) : pairs[j][1] # k][2]))]

\* the params dict as the pairs of the query string
ParamPairs(params) ==
    IF params.t # "dict" THEN <<>>
    ELSE [i \in 1..Len(params.kvs) |-> <<params.kvs[i][1], Flat(Format(params.kvs[i][2]))>>]

\* the query that goes on the wire: the one of the URL when params is None or
\* empty, the params otherwise
WireQuery(request) ==
    IF ParamPairs(request.params) = <<>>
    THEN QueryPairs(UrlQuery(Flat(Tail(request.url))))
    ELSE ParamPairs(request.params)

\* @app.route(...): the rules of the two apps, as app, segments, view and
\* whether a <variable> segment follows
UrlRules ==
    << <<"mock", <<"health">>, "health", FALSE>>,
       <<"mock", <<"api", "dashboard", "summary">>, "dashboard_summary", FALSE>>,
       <<"mock", <<"api", "suppliers">>, "list_suppliers", FALSE>>,
       <<"mock", <<"api", "suppliers">>, "get_supplier", TRUE>>,
       <<"mock", <<"api", "purchase-orders">>, "list_purchase_orders", FALSE>>,
       <<"mock", <<"api", "purchase-orders">>, "get_purchase_order", TRUE>>,
       <<"mock", <<"api", "requisitions">>, "list_requisitions", FALSE>>,
       <<"mock", <<"api", "requisitions">>, "get_requisition", TRUE>>,
       <<"mock", <<"api", "invoices">>, "list_invoices", FALSE>>,
       <<"mock", <<"api", "invoices">>, "get_invoice", TRUE>>,
       <<"mock", <<"api", "contracts">>, "list_contracts", FALSE>>,
       <<"mock", <<"api", "contracts">>, "get_contract", TRUE>>,
       <<"mock", <<"api", "proposals">>, "list_proposals", FALSE>>,
       <<"mock", <<"api", "proposals">>, "get_proposal", TRUE>>,
       <<"mock", <<"api", "rfps">>, "list_rfps", FALSE>>,
       <<"mock", <<"api", "rfps">>, "get_rfp", TRUE>>,
       <<"risk", <<"health">>, "health", FALSE>>,
       <<"risk", <<"api", "risk", "score">>, "get_risk_score", TRUE>>,
       <<"risk", <<"api", "risk", "scores">>, "list_risk_scores", FALSE>>,
       <<"risk", <<"api", "risk", "high-risk">>, "get_high_risk_suppliers", FALSE>> >>

\* a rule matches a path of its segments, followed by one non-empty segment
\* when it has a variable
RuleMatches(rule, app, segments) ==
    /\ rule[1] = app
    /\ IF rule[4]
       THEN /\ Len(segments) = Len(rule[2]) + 2
            /\ SubSeq(segments, 1, Len(segments) - 1) = <<"">> \o rule[2]
            /\ segments[Len(segments)] # ""
       ELSE segments = <<"">> \o rule[2]

\* the app a base URL belongs to
AppOf(base) == IF base = MOCK_API_URL THEN "mock" ELSE "risk"

\* the request as the backend dispatches it: the view, its variable and
\* request.args; the view "not_found" when no rule matches
Dispatch(request) ==
    LET app == AppOf(Head(request.url))
        segments == PathSegments(Flat(Tail(request.url)))
        matching == {i \in 1..Len(UrlRules) : RuleMatches(UrlRules[i], app, segments)}
        args == RequestArgs(WireQuery(request))
    IN  IF matching = {} THEN BackendRequest(app, "not_found", <<>>, args)
        ELSE LET rule == UrlRules[CHOOSE i \in matching : TRUE]
             IN  BackendRequest(app, rule[3],
                                IF rule[4] THEN <<segments[Len(segments)]>> ELSE <<>>,
                                args)

\* the page the framework answers with when no rule matches
RouteNotFound == Response(404, <<RawTok("<!doctype html><title>404 Not Found</title>")>>, NoValue)

\* jsonify({"status": "healthy"}), with the service name in the risk app
BackendHealth(app) ==
    FlaskResponse(200, PyDict(IF app = "mock"
                              THEN << <<"status", PyStr(<<"healthy">>)>> >>
                              ELSE << <<"status", PyStr(<<"healthy">>)>>,
                                      <<"service", PyStr(<<"risk-assessment">>)>> >>))


\* the response of either app to a dispatched request
View(req) ==
    IF req.handler = "not_found" THEN RouteNotFound
    ELSE IF req.handler = "health" THEN BackendHealth(req.app)
    ELSE IF req.app = "mock" THEN MockView(req)
    ELSE RiskView(req)

(***************************************************************************)
(* The gateway and its backends together                                   *)
(***************************************************************************)
\* the tools whose schema requires an argument: the detail tools
RequiredOf(name) ==
    UNION {SeqRange(list_tools[i].required) :
               i \in {j \in 1..Len(list_tools) : list_tools[j].name = name}}

\* the ids a caller sends: a key of a table, ids no table holds, the empty
\* string, and ids with a delimiter of the URL syntax in them
CallerIds ==
    {PyStr(<<"SUP-1000">>), PyStr(<<"X-404">>), PyStr(<<"SUP-2049">>), PyStr(<<>>),
     PyStr(<<"a/b">>), PyStr(<<"X-404#top">>), PyStr(<<"SUP-1000?status=Active">>),
     PyStr(<<"../suppliers">>), PyStr(<<"../scores">>)}

\* every detail tool with each id or none, and two tools without an id
EndInvocations ==
    UNION {{<<name, arguments>> :
                arguments \in [RequiredOf(name) -> CallerIds] \cup {NoArguments}} :
           name \in {n \in CatalogNames : RequiredOf(n) # {}}}
    \cup {<<"get_dashboard_summary", NoArguments>>,
          <<"list_suppliers", [k \in {"status"} |-> PyStr(<<"Active">>)]>>}

EndCalls ==
    /\ cur = Idle
    /\ last.state = "none"
    /\ \E inv \in EndInvocations : CallTool(inv[1], inv[2], FALSE)

\* the request goes out and its backend dispatches it
Send ==
    /\ cur.pc = "awaiting"
    /\ last.state = "none"
    /\ last' = [state |-> "received", request |-> Dispatch(cur.request),
                generated |-> last.generated]
    /\ UNCHANGED <<http_client, phase, cur, mark, suspended, events, writes>>

\* the backend runs the view
Serve ==
    /\ last.state = "received"
    /\ Handle(last.request, View(last.request))

\* history: a completed risk_get_score invocation may be remembered
Remembered(inv) ==
    IF inv.name = "risk_get_score" /\ inv.pc = "returned"
    THEN {mark, [set |-> TRUE, inv |-> inv, failed_since |-> FALSE]}
    ELSE {mark}

\* the response arrives: the rest of call_mock_api / call_risk_api and of
\* call_tool
Answer ==
    /\ cur.pc = "awaiting"
    /\ last.state = "handled"
    /\ cur' = Completed(cur, last.response)
    /\ mark' \in Remembered(cur')
    /\ http_client' = ClientAfterCall(ApiResult(cur.request, last.response))
    /\ last' = [state |-> "none", generated |-> last.generated]
    /\ UNCHANGED <<phase, suspended, events, writes>>

\* the backend cannot be reached
Unreachable ==
    /\ last.state = "none"
    /\ ApiReturn(TransportError("ConnectError", <<"All connection attempts failed">>), FALSE)

NextEnd ==
    \/ LifecycleWarm
    \/ EndCalls
    \/ Send
    \/ Serve
    \/ Answer
    \/ Unreachable
    \/ Deliver

SpecEnd == Init /\ [][NextEnd]_vars

(***************************************************************************)
(* The routing table as the specification states it:                       *)
(* name, backend, path (prefix), id argument or "", optional filters       *)
(***************************************************************************)
RoutingTable ==
    { <<"get_dashboard_summary", "primary", "/api/dashboard/summary", "", {}>>,
      <<"list_suppliers", "primary", "/api/suppliers", "", {"status", "category"}>>,
      <<"get_supplier", "primary", "/api/suppliers/", "supplier_id", {}>>,
      <<"list_purchase_orders", "primary", "/api/purchase-orders", "", {"status", "supplier_id"}>>,
      <<"get_purchase_order", "primary", "/api/purchase-orders/", "po_id", {}>>,
      <<"list_requisitions", "primary", "/api/requisitions", "", {"status", "requester"}>>,
      <<"get_requisition", "primary", "/api/requisitions/", "req_id", {}>>,
      <<"list_invoices", "primary", "/api/invoices", "", {"status", "po_number"}>>,
      <<"get_invoice", "primary", "/api/invoices/", "invoice_id", {}>>,
      <<"list_contracts", "primary", "/api/contracts", "", {"status", "supplier_name"}>>,
      <<"get_contract", "primary", "/api/contracts/", "contract_id", {}>>,
      <<"list_proposals", "primary", "/api/proposals", "", {"rfp_id", "supplier_id", "status"}>>,
      <<"get_proposal", "primary", "/api/proposals/", "proposal_id", {}>>,
      <<"list_rfps", "primary", "/api/rfps", "", {"status"}>>,
      <<"get_rfp", "primary", "/api/rfps/", "rfp_id", {}>>,
      <<"risk_get_score", "risk", "/api/risk/score/", "supplier_id", {}>> }

Recognized == {r[1] : r \in RoutingTable}

RouteOf(name) == CHOOSE r \in RoutingTable : r[1] = name

BaseOf(name) == IF RouteOf(name)[2] = "risk" THEN RISK_API_URL ELSE MOCK_API_URL

IdKeyOf(name) == RouteOf(name)[4]

FiltersOf(name) == RouteOf(name)[5]

DetailTools == {n \in Recognized : IdKeyOf(n) # ""}

ListTools == {n \in Recognized : FiltersOf(n) # {}}

\* the current invocation came through call_tool
ToolInv == cur.pc # "idle" /\ cur.via = "tool"

\* the current invocation has sent its request
Issued(inv) == inv.pc = "awaiting" \/ (inv.pc \in {"returned", "raised"} /\ inv.gets >= 1)

\* the current invocation is over and had an exchange with a backend
Exchanged == cur.pc \in {"returned", "raised"} /\ cur.gets >= 1

(***************************************************************************)
(* C1: each of the 16 recognized tools sends its GET to the route fixed    *)
(* for its name: risk_get_score to the risk base URL, every other tool to  *)
(* the mock base URL, at the tool's own path, a supplied id substituted    *)
(* verbatim.                                                               *)
(***************************************************************************)
C1_Routing ==
    /\ Cardinality(Recognized) = 16
    /\ (ToolInv /\ cur.name \in Recognized
           /\ (IdKeyOf(cur.name) # "" => IdKeyOf(cur.name) \in DOMAIN cur.arguments))
       => /\ Issued(cur)
          /\ cur.request.method = "GET"
          /\ cur.request.url =
                 <<BaseOf(cur.name), RouteOf(cur.name)[3]>>
                 \o (IF IdKeyOf(cur.name) = "" THEN <<>>
                     ELSE cur.arguments[IdKeyOf(cur.name)].s)

C1_Witness ==
    /\ ToolInv
    /\ cur.name = "risk_get_score"
    /\ cur.pc = "awaiting"
    /\ cur.request.url = <<RISK_API_URL, "/api/risk/score/", "SUP-1000">>

Occurrences(d, k) == Cardinality({i \in 1..Len(d.kvs) : d.kvs[i][1] = k})

(***************************************************************************)
(* C2: for every list tool and every filter it declares, a filter that is  *)
(* absent or empty is not among the outbound query parameters, and a       *)
(* filter that is present and non-empty is there once, with its value.     *)
(***************************************************************************)
C2_Filters ==
    (ToolInv /\ cur.name \in ListTools)
    => /\ Issued(cur)
       /\ cur.request.params.t = "dict"
       /\ \A f \in FiltersOf(cur.name) :
              IF f \in DOMAIN cur.arguments /\ cur.arguments[f].s # <<>>
              THEN /\ Occurrences(cur.request.params, f) = 1
                   /\ DictValue(cur.request.params, f) = cur.arguments[f]
              ELSE Occurrences(cur.request.params, f) = 0

C2_Witness ==
    /\ ToolInv
    /\ cur.name = "list_proposals"
    /\ cur.pc = "awaiting"
    /\ DOMAIN cur.arguments = {"rfp_id", "status"}
    /\ cur.arguments["rfp_id"] = PyStr(<<"SUP-1000">>)
    /\ cur.arguments["status"] = PyStr(<<>>)
    /\ DictKeys(cur.request.params) = {"rfp_id"}

TransportFailure(outcome) ==
    \/ outcome.kind = "exception"
    \/ outcome.kind = "response" /\ ~(outcome.status \in 200..299)

IsErrorPayload(v) ==
    /\ v.t = "dict"
    /\ Len(v.kvs) = 1
    /\ v.kvs[1][1] = "error"
    /\ v.kvs[1][2].t = "str"

(***************************************************************************)
(* C3: when the request of a recognized tool fails by timeout, connection  *)
(* failure or a non-2xx status, call_tool returns a result whose payload   *)
(* is {"error": <description>} and no exception escapes.                   *)
(***************************************************************************)
C3_ErrorResult ==
    (ToolInv /\ cur.name \in Recognized /\ Exchanged /\ TransportFailure(cur.outcome))
    => /\ cur.pc = "returned"
       /\ Len(cur.envelope) = 1
       /\ JsonLoads(cur.envelope[1].text).ok
       /\ IsErrorPayload(JsonLoads(cur.envelope[1].text).v)

C3_Witness ==
    /\ ToolInv
    /\ cur.name = "get_supplier"
    /\ Exchanged
    /\ cur.outcome.kind = "exception"
    /\ cur.outcome.cls = "ReadTimeout"
    /\ cur.pc = "returned"
    /\ IsErrorPayload(cur.result)

(***************************************************************************)
(* C4: for every tool name, argument mapping and backend outcome (2xx with *)
(* JSON, 2xx with a body that is not JSON, non-2xx, timeout, connection    *)
(* failure) call_tool returns a list of exactly one text content item and  *)
(* never raises.                                                           *)
(***************************************************************************)
C4_AlwaysEnvelope ==
    (ToolInv /\ cur.pc \in {"returned", "raised"})
    => /\ cur.pc = "returned"
       /\ Len(cur.envelope) = 1
       /\ cur.envelope[1].type = "text"

(***************************************************************************)
(* C5: a tool name outside the recognized set gets one text content item   *)
(* naming the tool, and no outbound HTTP call is made, whatever the        *)
(* arguments.                                                              *)
(***************************************************************************)
C5_UnknownTool ==
    (ToolInv /\ cur.name \notin Recognized)
    => /\ cur.pc = "returned"
       /\ cur.gets = 0
       /\ "request" \notin DOMAIN cur
       /\ Len(cur.envelope) = 1
       /\ cur.envelope[1].type = "text"
       /\ cur.envelope[1].text =
              <<[k |-> "raw", s |-> <<"Error: Unknown tool '", cur.name, "'">>, n |-> 0]>>

C5_Witness ==
    /\ ToolInv
    /\ cur.name = "GET_SUPPLIER"
    /\ DOMAIN cur.arguments = {"supplier_id", "limit"}
    /\ cur.pc = "returned"
    /\ cur.gets = 0

RECURSIVE JsonEq(_, _)
JsonEq(a, b) ==
    IF a.t # b.t THEN FALSE
    ELSE CASE a.t = "list" ->
                 /\ Len(a.xs) = Len(b.xs)
                 /\ \A i \in 1..Len(a.xs) : JsonEq(a.xs[i], b.xs[i])
           [] a.t = "dict" ->
                 /\ Len(a.kvs) = Len(b.kvs)
                 /\ DictKeys(a) = DictKeys(b)
                 /\ \A k \in DictKeys(a) : JsonEq(DictValue(a, k), DictValue(b, k))
           [] OTHER -> a = b

JsonAnswer(outcome) ==
    /\ outcome.kind = "response"
    /\ outcome.status \in 200..299
    /\ outcome.value # NoValue

(***************************************************************************)
(* C6: when the backend answers 2xx with a JSON body, decoding the text of *)
(* the tool result (or the body of the REST facade response) yields the    *)
(* JSON value the backend sent: nothing added, removed, changed, or        *)
(* reordered in a sequence.                                                *)
(***************************************************************************)
C6_BodyUnmodified ==
    (Exchanged /\ JsonAnswer(cur.outcome))
    => /\ cur.pc = "returned"
       /\ IF cur.via = "tool"
          THEN /\ Len(cur.envelope) = 1
               /\ JsonLoads(cur.envelope[1].text).ok
               /\ JsonEq(JsonLoads(cur.envelope[1].text).v, cur.outcome.value)
          ELSE /\ cur.response.status_code = 200
               /\ JsonLoads(cur.response.body).ok
               /\ JsonEq(JsonLoads(cur.response.body).v, cur.outcome.value)

C6_Witness ==
    /\ ToolInv
    /\ Exchanged
    /\ JsonAnswer(cur.outcome)
    /\ cur.outcome.value = OrderList
    /\ cur.outcome.body = Jsonify(OrderList)
    /\ cur.pc = "returned"
    /\ Len(cur.envelope[1].text) > Len(cur.outcome.body)

(***************************************************************************)
(* C7: every invocation of a recognized tool issues exactly one outbound   *)
(* GET, whether the request succeeds or fails: no retry, no second         *)
(* request.                                                                *)
(***************************************************************************)
C7_OneGet ==
    (ToolInv /\ cur.name \in Recognized)
    => /\ Issued(cur)
       /\ cur.gets = 1

C7_Witness ==
    /\ ToolInv
    /\ cur.name = "list_invoices"
    /\ Exchanged
    /\ cur.outcome.kind = "exception"
    /\ cur.outcome.cls = "ConnectError"
    /\ cur.gets = 1

(***************************************************************************)
(* C8: a detail tool invoked without its id argument is not rejected       *)
(* locally: it issues one GET whose path has the text None in place of     *)
(* the id.                                                                 *)
(***************************************************************************)
C8_MissingId ==
    (ToolInv /\ cur.name \in DetailTools /\ IdKeyOf(cur.name) \notin DOMAIN cur.arguments)
    => /\ Issued(cur)
       /\ cur.gets = 1
       /\ cur.request.url = <<BaseOf(cur.name), RouteOf(cur.name)[3], "None">>

C8_Witness ==
    /\ ToolInv
    /\ cur.name = "get_supplier"
    /\ DOMAIN cur.arguments = {}
    /\ cur.pc = "awaiting"
    /\ cur.request.url = <<MOCK_API_URL, "/api/suppliers/", "None">>

SameCall == ToolInv /\ cur.name = mark.inv.name /\ cur.arguments = mark.inv.arguments

(***************************************************************************)
(* C9: an invocation with the same tool name and the same arguments as an  *)
(* earlier one issues the same outbound request (backend, path, query      *)
(* parameters), whatever was invoked in between.                           *)
(***************************************************************************)
C9_Idempotent ==
    (mark.set /\ SameCall)
    => /\ Issued(cur) <=> Issued(mark.inv)
       /\ Issued(cur) => cur.request = mark.inv.request

C9_Witness ==
    /\ mark.set
    /\ SameCall
    /\ cur.name = "list_suppliers"
    /\ cur.pc = "awaiting"
    /\ cur.request = mark.inv.request

(***************************************************************************)
(* C10: a failed call does not affect later calls: after an invocation     *)
(* that ended in an error result or an unknown-tool result the service     *)
(* still serves, and a later invocation issues the request and returns the *)
(* result it gave before the failure.                                      *)
(***************************************************************************)
C10_FailureIsolated ==
    /\ (cur.pc \in {"returned", "raised"} /\ Failed(cur))
       => (phase = "serving" /\ http_client = "open")
    /\ (mark.set /\ mark.failed_since /\ SameCall)
       => /\ Issued(cur) <=> Issued(mark.inv)
          /\ Issued(cur) => cur.request = mark.inv.request
          /\ (cur.pc \in {"returned", "raised"}
                 /\ (Issued(cur) => cur.outcome = mark.inv.outcome))
             => /\ cur.pc = mark.inv.pc
                /\ cur.pc = "returned" => cur.envelope = mark.inv.envelope

C10_Witness ==
    /\ mark.set
    /\ mark.failed_since
    /\ SameCall
    /\ cur.name = "get_purchase_order"
    /\ cur.pc = "returned"
    /\ cur.ending = "ok"
    /\ cur.outcome = mark.inv.outcome
    /\ cur.envelope = mark.inv.envelope

\* the request the routing table and the invocation's own arguments fix
ExpectedUrl(name, arguments) ==
    <<BaseOf(name), RouteOf(name)[3]>>
    \o (IF IdKeyOf(name) = "" THEN <<>>
        ELSE IF IdKeyOf(name) \in DOMAIN arguments THEN arguments[IdKeyOf(name)].s
        ELSE <<"None">>)

ExpectedQuery(name, arguments) ==
    {<<f, arguments[f]>> : f \in {g \in FiltersOf(name) \cap DOMAIN arguments :
                                      arguments[g].s # <<>>}}

QueryOf(params) == IF params.t = "dict" THEN SeqRange(params.kvs) ELSE {}

OwnRequest(inv) ==
    /\ inv.request.url = ExpectedUrl(inv.name, inv.arguments)
    /\ QueryOf(inv.request.params) = ExpectedQuery(inv.name, inv.arguments)

\* the result the invocation's own request and the response to it fix
OwnResult(inv) ==
    /\ JsonAnswer(inv.outcome)
       => /\ inv.pc = "returned"
          /\ JsonEq(inv.result, inv.outcome.value)
    /\ TransportFailure(inv.outcome)
       => /\ inv.pc = "returned"
          /\ IsErrorPayload(inv.result)
          /\ inv.outcome.kind = "exception"
             => inv.result = ErrorDict(inv.outcome.message)
          /\ inv.outcome.kind = "response"
             => inv.result = ErrorDict(StatusMessage(inv.outcome.status,
                                                     ExpectedUrl(inv.name, inv.arguments)))
    /\ inv.pc = "returned" => inv.envelope = ToolResult(inv.result)

InFlight == {suspended[i] : i \in 1..Len(suspended)}

(***************************************************************************)
(* C11: under any interleaving of concurrent invocations, the request of   *)
(* every invocation in flight is the one its own tool name and arguments   *)
(* fix, the result of every finished invocation is the one its own request *)
(* and the response to it fix, a waiting invocation can always be resumed  *)
(* whatever the others do, and the shared client stays open.               *)
(***************************************************************************)
C11_Independent ==
    /\ \A inv \in InFlight :
           /\ inv.pc = "awaiting"
           /\ inv.name \in Recognized
           /\ OwnRequest(inv)
    /\ (ToolInv /\ cur.name \in Recognized)
       => /\ Issued(cur)
          /\ OwnRequest(cur)
          /\ Exchanged => OwnResult(cur)
    /\ (cur = Idle) => \A i \in 1..Len(suspended) : ENABLED Wake(i)
    /\ (cur # Idle \/ suspended # <<>>) => http_client = "open"

C11_Witness ==
    /\ Len(suspended) = 2
    /\ suspended[1].name = "list_suppliers"
    /\ DictKeys(suspended[1].request.params) = {"status", "category"}
    /\ suspended[2].name = "risk_get_score"
    /\ ToolInv
    /\ cur.name = "list_suppliers"
    /\ DOMAIN cur.arguments = {}
    /\ cur.pc = "returned"
    /\ cur.ending = "ok"
    /\ cur.request.params = EmptyDict

Over(inv) == inv.pc \in {"returned", "raised"}

(***************************************************************************)
(* C12: every invocation of a recognized tool that has sent its request    *)
(* eventually ends: the exchange gets a response or runs into the timeout  *)
(* of the request, and a timeout ends the call with the result             *)
(* {"error": ...}; the call is never left pending.                         *)
(***************************************************************************)
C12_Terminates ==
    /\ [](ToolInv /\ cur.pc = "awaiting" => cur.request.timeout = RequestTimeout)
    /\ []((ToolInv /\ Exchanged /\ IsTimeout(cur.outcome))
            => (cur.pc = "returned" /\ IsErrorPayload(cur.result)))
    /\ (ToolInv /\ cur.name \in Recognized /\ cur.pc = "awaiting") ~> Over(cur)

C12_Witness ==
    /\ ToolInv
    /\ cur.name = "list_rfps"
    /\ Exchanged
    /\ IsTimeout(cur.outcome)
    /\ cur.request.timeout = 30
    /\ cur.pc = "returned"
    /\ cur.result = ErrorDict(<<>>)

CountEvents(e) == Cardinality({i \in 1..Len(events) : events[i].e = e})

(***************************************************************************)
(* C13: the shared client is constructed exactly once, from None, as the   *)
(* first thing lifespan does, and closed exactly once, as the last; every  *)
(* warm-up GET and every invocation finds the client open: none runs       *)
(* before the construction or after aclose().                              *)
(***************************************************************************)
C13_ClientLifetime ==
    /\ CountEvents("AsyncClient") = (IF phase = "start" THEN 0 ELSE 1)
    /\ CountEvents("aclose") = (IF phase = "stopped" THEN 1 ELSE 0)
    /\ http_client = (CASE phase = "start" -> "None"
                         [] phase = "stopped" -> "closed"
                         [] OTHER -> "open")
    /\ \A i \in 1..Len(events) :
           /\ events[i].e = "AsyncClient" => (i = 1 /\ events[i].client = "None")
           /\ events[i].e = "get" => (i > 1 /\ events[i].client = "open")
           /\ events[i].e = "aclose" => (i = Len(events) /\ events[i].client = "open")
    /\ cur # Idle
       => /\ phase = "serving"
          /\ http_client = "open"
          /\ CountEvents("get") = 2
          /\ cur.pc = "raised" => cur.exc \notin {"AttributeError", "RuntimeError"}

C13_Witness ==
    /\ phase = "stopped"
    /\ http_client = "closed"
    /\ Len(events) = 4
    /\ events[1].e = "AsyncClient"
    /\ \E ok \in BOOLEAN : events[2] = GetEvent(<<MOCK_API_URL, "/health">>, "open", ok)
    /\ \E ok \in BOOLEAN : events[3] = GetEvent(<<RISK_API_URL, "/health">>, "open", ok)
    /\ events[4].e = "aclose"

\* the facade handler and the tool of the same operation
OperationPairs ==
    { <<"api_dashboard", "get_dashboard_summary">>,
      <<"api_suppliers", "list_suppliers">>,
      <<"api_supplier_detail", "get_supplier">>,
      <<"api_purchase_orders", "list_purchase_orders">>,
      <<"api_purchase_order_detail", "get_purchase_order">>,
      <<"api_requisitions", "list_requisitions">>,
      <<"api_requisition_detail", "get_requisition">>,
      <<"api_invoices", "list_invoices">>,
      <<"api_invoice_detail", "get_invoice">>,
      <<"api_contracts", "list_contracts">>,
      <<"api_contract_detail", "get_contract">>,
      <<"api_proposals", "list_proposals">>,
      <<"api_proposal_detail", "get_proposal">>,
      <<"api_rfps", "list_rfps">>,
      <<"api_rfp_detail", "get_rfp">>,
      <<"api_risk_score", "risk_get_score">> }

ToolOf(handler) == (CHOOSE pr \in OperationPairs : pr[1] = handler)[2]

HandlerOf(name) == (CHOOSE pr \in OperationPairs : pr[2] = name)[1]

Restrict(f, S) == [k \in DOMAIN f \cap S |-> f[k]]

\* the query parameters a request carries, in order: None and {} carry none
QuerySeq(params) == IF params.t = "dict" THEN params.kvs ELSE <<>>

SameGet(r1, r2) ==
    /\ r1.method = r2.method
    /\ r1.url = r2.url
    /\ QuerySeq(r1.params) = QuerySeq(r2.params)

\* a facade response and a tool result that carry the same JSON data for the
\* same backend outcome: compact body against indented text
SameData(response, res) ==
    /\ ~res.raised
    /\ response.status_code = 200
    /\ response.body = Dumps(res.value, -1, 0)
    /\ ToolResult(res.value)[1].text = Dumps(res.value, 2, 0)
    /\ JsonLoads(response.body).ok
    /\ JsonLoads(ToolResult(res.value)[1].text).ok
    /\ JsonEq(JsonLoads(response.body).v, JsonLoads(ToolResult(res.value)[1].text).v)

\* the tool of the same operation, called with the id and filters of the
\* facade request in cur
ToolTwin ==
    call_tool(ToolOf(cur.name), cur.arguments.path_params @@ cur.arguments.query_params)

\* the facade route of the same operation, requested with the id and
\* filters of the tool invocation in cur
FacadeTwin ==
    api_handler(HandlerOf(cur.name),
                Restrict(cur.arguments, {IdKeyOf(cur.name)}),
                Restrict(cur.arguments, DOMAIN cur.arguments \ {IdKeyOf(cur.name)}))

\* a tool invocation a facade route can express: the id, if any, is a
\* non-empty path segment
Expressible ==
    /\ ToolInv
    /\ cur.name \in Recognized
    /\ IdKeyOf(cur.name) # ""
       => /\ IdKeyOf(cur.name) \in DOMAIN cur.arguments
          /\ cur.arguments[IdKeyOf(cur.name)].s # <<>>

(***************************************************************************)
(* C14: each of the 16 data routes of the facade has its tool: for the     *)
(* same id and filter values the route and the tool issue the same GET     *)
(* (method, URL, query parameters) and, for the same backend outcome,      *)
(* return the same JSON data, the facade as a compact body with status     *)
(* 200, the tool as indented text; where one raises, so does the other.    *)
(***************************************************************************)
C14_FacadeEquivalent ==
    /\ {pr[1] : pr \in OperationPairs} = Handlers
    /\ {pr[2] : pr \in OperationPairs} = CatalogNames
    /\ (cur.pc # "idle" /\ cur.via = "rest")
       => /\ ToolTwin.known
          /\ Issued(cur)
          /\ SameGet(cur.request, ApiRequest(ToolTwin))
          /\ Exchanged
             => LET res == ApiResult(ApiRequest(ToolTwin), cur.outcome) IN
                IF cur.pc = "returned" THEN SameData(cur.response, res)
                ELSE res.raised /\ res.exc = cur.exc
    /\ Expressible
       => /\ Issued(cur)
          /\ SameGet(cur.request, ApiRequest(FacadeTwin))
          /\ Exchanged
             => LET res == ApiResult(ApiRequest(FacadeTwin), cur.outcome) IN
                IF cur.pc = "returned"
                THEN /\ ~res.raised
                     /\ JsonEq(JsonLoads(JSONResponse(res.value).body).v,
                               JsonLoads(cur.envelope[1].text).v)
                ELSE res.raised /\ res.exc = cur.exc

C14_Witness ==
    /\ cur.pc = "returned"
    /\ cur.via = "rest"
    /\ cur.name = "api_proposals"
    /\ DOMAIN cur.arguments.query_params = {"rfp_id", "status"}
    /\ cur.arguments.query_params["status"] = PyStr(<<>>)
    /\ QuerySeq(cur.request.params) = << <<"rfp_id", PyStr(<<"SUP-1000">>)>> >>
    /\ JsonAnswer(cur.outcome)
    /\ cur.outcome.value = OrderList
    /\ cur.response.body = Dumps(OrderList, -1, 0)

(***************************************************************************)
(* C15: when the backend answers 404 (or another non-2xx status) or cannot *)
(* be reached, the caller gets the failure in-band: call_tool returns one  *)
(* text content item and the facade a response with status 200, each       *)
(* carrying the JSON object {"error": <string>}; no exception escapes.     *)
(***************************************************************************)
C15_InBandError ==
    (Exchanged /\ TransportFailure(cur.outcome))
    => /\ cur.pc = "returned"
       /\ IsErrorPayload(cur.result)
       /\ IF cur.via = "tool"
          THEN /\ Len(cur.envelope) = 1
               /\ cur.envelope[1].type = "text"
               /\ JsonLoads(cur.envelope[1].text).ok
               /\ JsonLoads(cur.envelope[1].text).v = cur.result
          ELSE /\ cur.response.status_code = 200
               /\ JsonLoads(cur.response.body).ok
               /\ JsonLoads(cur.response.body).v = cur.result

C15_Witness ==
    /\ cur.pc = "returned"
    /\ cur.via = "rest"
    /\ cur.name = "api_supplier_detail"
    /\ cur.arguments.path_params["supplier_id"] = PyStr(<<"X-404">>)
    /\ cur.outcome.kind = "response"
    /\ cur.outcome.status = 404
    /\ cur.response.status_code = 200
    /\ cur.result = ErrorDict(<<"Client error '404 NOT FOUND' for url '", MOCK_API_URL,
                                "/api/suppliers/", "X-404", "'">>)

(***************************************************************************)
(* C16: the names list_tools enumerates, the names call_tool dispatches on *)
(* and the 16 names of the fixed tool set are one set: every catalogued    *)
(* tool reaches a backend call, and every other name gets the unknown-tool *)
(* answer.                                                                 *)
(***************************************************************************)
C16_ClosedToolSet ==
    /\ Len(list_tools) = 16
    /\ Cardinality(CatalogNames) = 16
    /\ CatalogNames = Recognized
    /\ CatalogNames = DispatchNames
    /\ \A name \in ToolNames \cup DispatchNames \cup Recognized :
           call_tool(name, NoArguments).known <=> name \in CatalogNames
    /\ ToolInv => (cur.gets = 0 <=> cur.name \notin CatalogNames)

C16_Witness ==
    /\ ToolInv
    /\ cur.name = list_tools[16].name
    /\ cur.name = "risk_get_score"
    /\ cur.pc = "returned"
    /\ cur.gets = 1
    /\ cur.ending = "ok"

KeyUniverse == UNION {CatalogProperties(name) : name \in CatalogNames} \cup {ExtraKey}

ProbeValue == PyStr(<<"SUP-1000">>)

\* the argument names call_tool reads for a tool: those whose value changes
\* the backend call it builds
ReadKeys(name) ==
    {k \in KeyUniverse : call_tool(name, k :> ProbeValue) # call_tool(name, NoArguments)}

\* the argument names call_tool substitutes into the path
PathKeys(name) ==
    {k \in KeyUniverse :
        call_tool(name, k :> ProbeValue).endpoint # call_tool(name, NoArguments).endpoint}

SchemaMatches ==
    \A i \in 1..Len(list_tools) :
        LET t == list_tools[i] IN
        /\ SeqRange(t.properties) = ReadKeys(t.name)
        /\ Len(t.properties) = Cardinality(SeqRange(t.properties))
        /\ (t.name \in DetailTools) <=> (PathKeys(t.name) # {})
        /\ IF t.name \in DetailTools
           THEN /\ Len(t.required) = 1
                /\ PathKeys(t.name) = {t.required[1]}
                /\ t.required[1] = IdKeyOf(t.name)
           ELSE t.required = <<>>

(***************************************************************************)
(* C17: for each catalog entry the schema's property names are exactly the *)
(* argument names call_tool reads for that tool; get_dashboard_summary and *)
(* the list tools declare no required field and substitute nothing into    *)
(* the path; each detail tool declares exactly one required field, the     *)
(* argument call_tool substitutes into the path.                           *)
(***************************************************************************)
C17_SchemaMatchesDispatch ==
    /\ SchemaMatches
    /\ (ToolInv /\ cur.name \in CatalogNames)
       => /\ Issued(cur)
          /\ cur.request =
                 ApiRequest(call_tool(cur.name,
                                      Restrict(cur.arguments, CatalogProperties(cur.name))))

C17_Witness ==
    /\ ToolInv
    /\ cur.name = "get_invoice"
    /\ DOMAIN cur.arguments = {"invoice_id", ExtraKey}
    /\ cur.pc = "awaiting"
    /\ cur.request.url = <<MOCK_API_URL, "/api/invoices/", "SUP-1000">>
    /\ cur.request.params = PyNone

Handled == last.state = "handled"

\* detail endpoint, table, entity as the 404 message names it
DetailEntities ==
    { <<"get_supplier", "suppliers_db", "Supplier">>,
      <<"get_purchase_order", "purchase_orders_db", "Purchase order">>,
      <<"get_requisition", "requisitions_db", "Requisition">>,
      <<"get_invoice", "invoices_db", "Invoice">>,
      <<"get_contract", "contracts_db", "Contract">>,
      <<"get_proposal", "proposals_db", "Proposal">>,
      <<"get_rfp", "rfps_db", "RFP">> }

DetailEntityOf(handler) == CHOOSE e \in DetailEntities : e[1] = handler

\* the body is the JSON text of the value
Encodes(response) ==
    /\ JsonLoads(response.body).ok
    /\ JsonLoads(response.body).v = response.value

(***************************************************************************)
(* C18: a detail endpoint of the mock backend answers 2xx with the stored  *)
(* record when the requested id is a key of its table, and otherwise 404   *)
(* with the body {"error": "<entity> '<id>' not found"} naming that id.    *)
(***************************************************************************)
C18_DetailOrNotFound ==
    (Handled /\ last.request.handler \in {e[1] : e \in DetailEntities})
    => LET e == DetailEntityOf(last.request.handler)
           id == Flat(last.request.id)
           table == Generated[e[2]]
           response == last.response
       IN  /\ Encodes(response)
           /\ IF id \in DictKeys(table)
              THEN /\ response.status \in 200..299
                   /\ response.value = DictValue(table, id)
                   /\ Field(response.value, "id") = id
              ELSE /\ response.status = 404
                   /\ IsErrorPayload(response.value)
                   /\ Field(response.value, "error") = e[3] \o " '" \o id \o "' not found"

C18_Witness ==
    /\ Handled
    /\ last.request.handler = "get_purchase_order"
    /\ last.request.id = <<"X-404">>
    /\ last.response.status = 404
    /\ Flat(last.response.value.kvs[1][2].s) = "Purchase order 'X-404' not found"

\* two characters that are the same letter, whatever their case
SameLetter(c, d) ==
    \/ c = d
    \/ \E i \in 1..Len(UpperCase) :
           {c, d} = {SubSeq(UpperCase, i, i), SubSeq(LowerCase, i, i)}

SameIgnoringCase(a, b) ==
    /\ Len(a) = Len(b)
    /\ \A i \in 1..Len(a) : SameLetter(SubSeq(a, i, i), SubSeq(b, i, i))

OccursIgnoringCase(a, b) ==
    \E i \in 0..(Len(b) - Len(a)) : SameIgnoringCase(a, SubSeq(b, i + 1, i + Len(a)))

\* how the stated filter of a query parameter compares a record with a value
Satisfies(r, k, v) ==
    CASE k \in {"status", "category"} -> SameIgnoringCase(Field(r, k), v)
      [] k \in {"supplier_id", "po_number", "rfp_id"} -> Field(r, k) = v
      [] k \in {"requester", "supplier_name"} -> OccursIgnoringCase(v, Field(r, k))

\* the rows that satisfy every supplied non-empty filter
Kept(rows, args) ==
    {i \in 1..Len(rows) :
        \A k \in DOMAIN args :
            Flat(args[k].s) # "" => Satisfies(rows[i], k, Flat(args[k].s))}

\* the rows at the positions in I, in the order of rows
RECURSIVE Pick(_, _, _)
Pick(rows, I, i) ==
    IF i > Len(rows) THEN <<>>
    ELSE (IF i \in I THEN <<rows[i]>> ELSE <<>>) \o Pick(rows, I, i + 1)

ListTableOf(handler) == (CHOOSE e \in MockLists : e[1] = handler)[2]

(***************************************************************************)
(* C19: a list endpoint of the mock backend returns exactly the records of *)
(* its table that satisfy every supplied non-empty filter, in table order, *)
(* and the whole table when none is supplied: status and category equal    *)
(* ignoring case, supplier_id, po_number and rfp_id equal exactly,         *)
(* requester and supplier_name contained ignoring case.                    *)
(***************************************************************************)
C19_ListFilters ==
    (Handled /\ last.request.handler \in {e[1] : e \in MockLists})
    => LET rows == Values(Generated[ListTableOf(last.request.handler)])
           args == last.request.args
           response == last.response
       IN  /\ Encodes(response)
           /\ response.status = 200
           /\ response.value = PyList(Pick(rows, Kept(rows, args), 1))
           /\ (\A k \in DOMAIN args : args[k].s = <<>>)
              => response.value = PyList(rows)

C19_Witness ==
    /\ Handled
    /\ last.request.handler = "list_contracts"
    /\ DOMAIN last.request.args = {"status", "supplier_name"}
    /\ last.request.args["status"] = PyStr(<<"active">>)
    /\ last.request.args["supplier_name"] = PyStr(<<"erpmax">>)
    /\ Len(last.response.value.xs) = 2
    /\ Field(last.response.value.xs[1], "id") = "CON-5024001"
    /\ Field(last.response.value.xs[2], "id") = "CON-5024003"

TableNames == DOMAIN Generated

(***************************************************************************)
(* C20: after any sequence of requests to the two backends every table     *)
(* holds exactly the records generated at process start; a risk-score      *)
(* request for an id the risk table does not hold stores nothing, and      *)
(* /api/risk/scores keeps returning the generated records.                 *)
(***************************************************************************)
C20_TablesImmutable ==
    /\ Cardinality(TableNames) = 8
    /\ writes = <<>>
    /\ \A table \in TableNames : TableNow(table) = Generated[table]
    /\ (Handled /\ last.request.handler = "list_risk_scores")
       => last.response.value = PyList(Values(Generated["risk_scores_db"]))

C20_Witness ==
    /\ Handled
    /\ last.generated
    /\ last.request.handler = "list_risk_scores"
    /\ Len(last.response.value.xs) = 5
    /\ DictKeys(TableNow("risk_scores_db")) =
           {"SUP-1000", "SUP-1001", "SUP-1002", "SUP-1003", "SUP-1004"}

(***************************************************************************)
(* C21: the score of an id the risk table does not hold is stable          *)
(***************************************************************************)
\* the id a risk_get_score invocation was called with, as the path shows it
AskedId(inv) == Flat(Format(DictGet(inv.arguments, "supplier_id")))

\* the backend answered the invocation (the exchange did not fail on the way)
Answered(inv) ==
    /\ inv.pc = "returned"
    /\ inv.outcome.kind = "response"

\* the record was computed, not read from the table
Estimated(v) == v.t = "dict" /\ "data_quality" \in DictKeys(v)

(* C21: risk_get_score for a supplier id that is not a key of the risk table
   returns a stable result: whenever an invocation with such an id is
   answered by the risk backend, and an earlier invocation with the same id,
   any number of calls of any tool before, was answered too, both return the
   same record in the same envelope. *)
C21_StableFallback ==
    (/\ mark.set
     /\ cur.pc = "returned"
     /\ cur.name = "risk_get_score"
     /\ mark.inv.name = "risk_get_score"
     /\ cur.arguments = mark.inv.arguments
     /\ ~HasKey(Generated["risk_scores_db"], AskedId(cur))
     /\ Answered(cur)
     /\ Answered(mark.inv))
    => /\ cur.outcome = mark.inv.outcome
       /\ cur.result = mark.inv.result
       /\ cur.envelope = mark.inv.envelope

\* a score was generated for X-404, the invocation was remembered, and X-404
\* is scored again by a later invocation
C21_Witness ==
    /\ mark.set
    /\ cur.pc = "returned"
    /\ cur.name = "risk_get_score"
    /\ cur.arguments = mark.inv.arguments
    /\ AskedId(cur) = "X-404"
    /\ Answered(cur)
    /\ Answered(mark.inv)
    /\ Estimated(cur.result)
    /\ Estimated(mark.inv.result)
    /\ last.generated

(***************************************************************************)
(* C22: the OpenAPI document against the routes and their handlers         *)
(***************************************************************************)
FacadePrefix == "/api/v1"

StartsWith(str, prefix) ==
    Len(str) >= Len(prefix) /\ SubSeq(str, 1, Len(prefix)) = prefix

\* the routes registered under /api/v1 that serve data
DataRouteIndexes ==
    {i \in 1..Len(AppRoutes) :
        /\ StartsWith(AppRoutes[i][1], FacadePrefix \o "/")
        /\ AppRoutes[i][1] \notin {FacadePrefix \o "/tools", FacadePrefix \o "/openapi.json"}}

\* a route path relative to the servers entry of the document
Unprefixed(path) == SubSeq(path, Len(FacadePrefix) + 1, Len(path))

\* the {name} fields of a route path
RECURSIVE Placeholders(_)
Placeholders(path) ==
    LET i == Find(path, "{", 1)
        j == Find(path, "}", 1)
    IN  IF i = 0 \/ j < i THEN {}
        ELSE {SubSeq(path, i + 1, j - 1)} \cup Placeholders(SubSeq(path, j + 1, Len(path)))

\* path parameters that all hold the same value
AllPathParams == [k \in KeyUniverse |-> PyStr(<<"A">>)]

\* the path parameters a handler reads: those whose value changes the
\* backend call it builds
PathReads(handler) ==
    {k \in KeyUniverse :
        api_handler(handler, [AllPathParams EXCEPT ![k] = PyStr(<<"B">>)], NoArguments)
            # api_handler(handler, AllPathParams, NoArguments)}

\* the query parameters a handler reads
QueryReads(handler) ==
    {k \in KeyUniverse :
        api_handler(handler, AllPathParams, k :> ProbeValue)
            # api_handler(handler, AllPathParams, NoArguments)}

\* the parameters an operation of the document declares
ParametersOf(operation) ==
    IF HasKey(operation, "parameters") THEN DictValue(operation, "parameters").xs ELSE <<>>

\* the names of the parameters declared in a place (path or query)
ParamNames(operation, place) ==
    {Flat(DictValue(ParametersOf(operation)[i], "name").s) :
        i \in {j \in 1..Len(ParametersOf(operation)) :
                   Flat(DictValue(ParametersOf(operation)[j], "in").s) = place}}

DocumentMatches(doc) ==
    LET paths == DictValue(doc, "paths") IN
    /\ Len(paths.kvs) = Cardinality(DictKeys(paths))
    /\ DictKeys(paths) = {Unprefixed(AppRoutes[i][1]) : i \in DataRouteIndexes}
    /\ \A i \in DataRouteIndexes :
           LET path == AppRoutes[i][1]
               handler == AppRoutes[i][2]
               item == DictValue(paths, Unprefixed(path))
               operation == DictValue(item, "get")
           IN  /\ DictKeys(item) = {"get"}
               /\ HasKey(operation, "operationId")
               /\ DictValue(operation, "operationId").t = "str"
               /\ DictValue(operation, "operationId").s # <<>>
               /\ ParamNames(operation, "path") = PathReads(handler)
               /\ ParamNames(operation, "path") = Placeholders(path)
               /\ ParamNames(operation, "query") = QueryReads(handler)
               /\ Cardinality(ParamNames(operation, "path") \cup ParamNames(operation, "query"))
                      = Len(ParametersOf(operation))

\* the document was requested and returned
DocumentReturned ==
    /\ cur.pc = "returned"
    /\ cur.via = "direct"
    /\ cur.name = "api_openapi_spec"

(* C22: the document GET /api/v1/openapi.json returns has one path entry for
   each data route registered under /api/v1 (every route there except /tools
   and /openapi.json) and no other path; each entry has a get operation with
   an operationId, and the path and query parameters it declares are exactly
   the path and query parameters the handler of the route reads. *)
C22_OpenApiMatchesRoutes ==
    DocumentReturned
    => /\ cur.response = JSONResponse(cur.result)
       /\ cur.response.status_code = 200
       /\ cur.gets = 0
       /\ DocumentMatches(cur.result)

\* the document was returned to a request that came through a proxy, with 16
\* paths and the risk route among them
C22_Witness ==
    /\ DocumentReturned
    /\ cur.result = api_openapi_spec(
           [scheme |-> "http", netloc |-> "localhost:8000",
            headers |-> [k \in {"x-forwarded-proto", "x-forwarded-host"} |->
                            IF k = "x-forwarded-proto" THEN "https" ELSE "gateway.example"]])
    /\ DictValue(cur.result, "servers").xs[1] =
           PyDict(<< <<"url", PyStr(<<"https", "://", "gateway.example", "/api/v1">>)>> >>)
    /\ Len(DictValue(cur.result, "paths").kvs) = 16
    /\ HasKey(DictValue(cur.result, "paths"), "/risk/{supplier_id}")

(***************************************************************************)
(* C23: the gateway's own /health                                          *)
(***************************************************************************)
\* /health was requested and answered
HealthAnswered ==
    /\ cur.pc = "returned"
    /\ cur.via = "direct"
    /\ cur.name = "health"

\* a warm-up probe raised
ProbeFailed(url) ==
    \E i \in 1..Len(events) : events[i].e = "get" /\ events[i].url = url /\ ~events[i].ok

(* C23: while the gateway serves, /health can always be requested, whatever
   the warm-up probes ended in, and its answer is status 200 with status
   "healthy"; answering it issues no request to a backend: the only GETs
   made are the two of the warm-up. *)
C23_HealthAlways ==
    /\ (phase = "serving" /\ cur = Idle) => ENABLED Health
    /\ HealthAnswered
       => /\ cur.response.status_code = 200
          /\ cur.response = JSONResponse(cur.result)
          /\ DictValue(cur.result, "status") = PyStr(<<"healthy">>)
          /\ cur.gets = 0
          /\ CountEvents("get") = 2

\* /health answered after both warm-up probes failed
C23_Witness ==
    /\ HealthAnswered
    /\ ProbeFailed(<<MOCK_API_URL, "/health">>)
    /\ ProbeFailed(<<RISK_API_URL, "/health">>)
    /\ DictValue(cur.result, "status") = PyStr(<<"healthy">>)

(***************************************************************************)
(* C27: the warm-up probes                                                 *)
(***************************************************************************)
\* the warm-up GETs made so far, in order
Probes == SelectSeq(events, LAMBDA ev : ev.e = "get")

\* the probes already made when the lifespan is in a phase
ProbesBy(p) ==
    CASE p \in {"start", "warm_mock"} -> <<>>
      [] p = "warm_risk" -> <<MOCK_API_URL>>
      [] OTHER -> <<MOCK_API_URL, RISK_API_URL>>

(* C27: at startup the gateway probes /health of the mock backend and then
   /health of the risk backend, each once; whether the probe of the mock
   backend returned or raised, the probe of the risk backend follows; and
   whatever the two probes ended in, startup completes with the client open
   and the gateway then accepts tool calls and facade requests. *)
C27_WarmupTolerant ==
    /\ phase \in {"start", "warm_mock", "warm_risk", "serving", "stopped"}
    /\ Len(Probes) = Len(ProbesBy(phase))
    /\ \A i \in 1..Len(Probes) : Probes[i].url = <<ProbesBy(phase)[i], "/health">>
    /\ phase = "warm_mock" => ENABLED (\E ok \in BOOLEAN : WarmupMock(ok))
    /\ phase = "warm_risk" => ENABLED (\E ok \in BOOLEAN : WarmupRisk(ok))
    /\ phase = "serving" => http_client = "open"
    /\ (phase = "serving" /\ cur = Idle) => (ENABLED ToolCalls(FALSE) /\ ENABLED Facade)
    /\ cur # Idle => phase = "serving"

\* both probes raised, the gateway serves, and a tool call got its data
C27_Witness ==
    /\ phase = "serving"
    /\ Len(Probes) = 2
    /\ ~Probes[1].ok
    /\ ~Probes[2].ok
    /\ ToolInv
    /\ cur.pc = "returned"
    /\ cur.ending = "ok"

(***************************************************************************)
(* C24: what of the argument mapping reaches the query                     *)
(***************************************************************************)
\* the names of the query parameters on the wire
WireNames(request) == {WireQuery(request)[i][1] : i \in 1..Len(WireQuery(request))}

(* C24: for every recognized tool whose request went out, the names of the
   query parameters sent are among the filter names the routing table
   declares for that tool and among the keys of the argument mapping, each
   carrying the value the caller gave; a key the tool does not declare is
   never sent; get_dashboard_summary and the detail tools are called with
   params None and send no query parameter; and the argument mapping the
   caller passed is the same after the call as before. *)
C24_OnlyDeclaredFilters ==
    ToolInv
    => /\ cur.left = cur.arguments
       /\ (cur.name \in Recognized /\ Issued(cur))
          => /\ WireNames(cur.request) \subseteq FiltersOf(cur.name) \cap DOMAIN cur.arguments
             /\ \A i \in 1..Len(WireQuery(cur.request)) :
                    WireQuery(cur.request)[i][2] =
                        Flat(cur.arguments[WireQuery(cur.request)[i][1]].s)
             /\ ExtraKey \notin WireNames(cur.request)
             /\ cur.name \notin ListTools
                => /\ cur.request.params = PyNone
                   /\ WireQuery(cur.request) = <<>>

\* list_proposals called with a filter, an empty filter and an undeclared
\* key: the filter alone is sent
C24_Witness ==
    /\ ToolInv
    /\ cur.name = "list_proposals"
    /\ cur.pc = "returned"
    /\ DOMAIN cur.arguments = {"rfp_id", "status", ExtraKey}
    /\ cur.arguments["rfp_id"] = PyStr(<<>>)
    /\ cur.arguments["status"] # PyStr(<<>>)
    /\ WireNames(cur.request) = {"status"}
    /\ cur.left = cur.arguments

(***************************************************************************)
(* C25: where the request of a detail tool arrives                         *)
(***************************************************************************)
\* the view behind the detail route of a tool's entity
DetailViewOf(name) == IF name = "risk_get_score" THEN "get_risk_score" ELSE name

\* the request of the current invocation has been dispatched by a backend
Dispatched == cur.pc = "awaiting" /\ last.state = "received"

(* C25: for every detail tool and every id, ids with '/', '?' or '#' in them
   included, the request arrives at the tool's designated backend, is
   dispatched to the detail view of the tool's entity or to no view at all,
   and carries no query parameter. *)
C25_NoRedirect ==
    (ToolInv /\ cur.name \in DetailTools /\ Dispatched)
    => /\ <<last.request.app>> = (IF BaseOf(cur.name) = MOCK_API_URL THEN <<"mock">>
                                  ELSE <<"risk">>)
       /\ last.request.handler \in {DetailViewOf(cur.name), "not_found"}
       /\ DOMAIN last.request.args = {}

(***************************************************************************)
(* C26: the body of an error response stays behind                         *)
(***************************************************************************)
\* the backend of the current invocation answered with a status outside 2xx
AnsweredNon2xx ==
    /\ cur.pc \in {"returned", "raised"}
    /\ cur.gets >= 1
    /\ cur.outcome.kind = "response"
    /\ ~(cur.outcome.status \in 200..299)

\* what the body of a response says: the error message of a JSON body, the
\* text of any other body
BodyText(outcome) ==
    IF outcome.value.t = "dict" /\ HasKey(outcome.value, "error")
    THEN Flat(DictValue(outcome.value, "error").s)
    ELSE Flat(outcome.body[1].s)

(* C26: when the backend answers with a status outside 2xx the call returns
   (it does not raise) the payload {"error": <text>}, where the text names
   the status and the URL of the request and does not contain what the
   backend's body says, so a message such as "Supplier 'X-404' not found"
   is not part of what the caller receives; the payload is not the parsed
   body. *)
C26_BodyNotForwarded ==
    (ToolInv /\ AnsweredNon2xx)
    => /\ cur.pc = "returned"
       /\ cur.ending = "error"
       /\ IsErrorPayload(cur.result)
       /\ cur.result # cur.outcome.value
       /\ cur.envelope = ToolResult(cur.result)
       /\ LET text == Flat(cur.result.kvs[1][2].s)
          IN  /\ StrIn("'404 NOT FOUND'", text)
              /\ StrIn(Flat(cur.request.url), text)
              /\ ~StrIn(BodyText(cur.outcome), text)

\* the mock backend answered get_supplier with its own 404 message
C26_Witness ==
    /\ ToolInv
    /\ AnsweredNon2xx
    /\ cur.name = "get_supplier"
    /\ cur.outcome.status = 404
    /\ BodyText(cur.outcome) = "Supplier 'X-404' not found"
    /\ cur.ending = "error"

(***************************************************************************)
(* C28: the score endpoint of the risk backend                             *)
(***************************************************************************)
\* the score endpoint answered a request
ScoreHandled == Handled /\ last.request.handler = "get_risk_score"

(* C28: the score endpoint of the risk backend answers every supplier id
   with a 2xx status and a JSON object: the stored record, which carries no
   data_quality, when the id is a key of the risk table, and otherwise a
   generated record whose supplier_id is the requested id and whose
   data_quality is "estimated"; it never answers 404 or an error object. *)
C28_ScoreAlways2xx ==
    ScoreHandled
    => LET id == Flat(last.request.id)
           table == Generated["risk_scores_db"]
           response == last.response
       IN  /\ response.status \in 200..299
           /\ Encodes(response)
           /\ response.value.t = "dict"
           /\ ~HasKey(response.value, "error")
           /\ Field(response.value, "supplier_id") = id
           /\ IF id \in DictKeys(table)
              THEN /\ response.value = DictValue(table, id)
                   /\ ~HasKey(response.value, "data_quality")
              ELSE /\ response.value \notin SeqRange(Values(table))
                   /\ HasKey(response.value, "data_quality")
                   /\ Field(response.value, "data_quality") = "estimated"

\* a stored id is answered from the table after a record was generated for
\* another id
C28_Witness ==
    /\ ScoreHandled
    /\ last.generated
    /\ last.request.id = <<"SUP-1004">>
    /\ last.response.status = 200
    /\ Field(last.response.value, "risk_level") = "High"
    /\ ~HasKey(last.response.value, "data_quality")

(***************************************************************************)
(* C29: the generated score and its level                                  *)
(***************************************************************************)
\* the score endpoint generated a record
ScoreGenerated ==
    /\ ScoreHandled
    /\ Flat(last.request.id) \notin DictKeys(Generated["risk_scores_db"])

(* C29: for an id the risk table does not hold, with h the integer value of
   the MD5 digest of the id, the overall score (in tenths) is 30 + h mod 50,
   which lies between 30 and 80, and risk_level is the entry of Low, Medium,
   High, Critical at index min(floor(score / 25), 3): Medium below 50, High
   from 50 up to but excluding 75, Critical from 75 on, and never Low. *)
C29_ScoreAndLevel ==
    ScoreGenerated
    => LET h == hash_val(Flat(last.request.id))
           score == DictValue(last.response.value, "overall_risk_score").n
           level == Field(last.response.value, "risk_level")
           index == IF score \div 25 < 3 THEN score \div 25 ELSE 3
       IN  /\ DictValue(last.response.value, "overall_risk_score").t = "int"
           /\ score = 30 + (h % 50)
           /\ score >= 30
           /\ score <= 80
           /\ level = <<"Low", "Medium", "High", "Critical">>[index + 1]
           /\ score < 50 => level = "Medium"
           /\ (score >= 50 /\ score < 75) => level = "High"
           /\ score >= 75 => level = "Critical"
           /\ level # "Low"

\* the id whose digest gives the score 7.5: the first Critical one
C29_Witness ==
    /\ ScoreGenerated
    /\ last.request.id = <<"SUP-2149">>
    /\ DictValue(last.response.value, "overall_risk_score") = PyInt(75)
    /\ Field(last.response.value, "risk_level") = "Critical"

====
